---- MODULE Spec2Model ----
(***************************************************************************)
(* Workflow execution core of the autonomous agent template:               *)
(* Runner.registerPlugin / validateTools / runWorkflow and interpolate     *)
(* (framework/core/runner.ts), driven by main (index.ts).                  *)
(*                                                                         *)
(* Text is a TLA+ string; the character at position i of s is At(s, i).    *)
(* JavaScript values are tagged records.                                   *)
(***************************************************************************)
EXTENDS Integers, Sequences, FiniteSets, TLC

(***************************************************************************)
(* JavaScript values held in the context                                   *)
(***************************************************************************)
Undef == [t |-> "undefined"]

Null == [t |-> "null"]

Bool(b) == [t |-> "boolean", b |-> b]

Num(n) == [t |-> "number", n |-> n]

Str(s) == [t |-> "string", s |-> s]

\* An object is the sequence of its own properties in insertion order.
Obj(props) == [t |-> "object", o |-> props]

Arr(items) == [t |-> "array", a |-> items]

\* A built-in function reached through the prototype chain.
Fn(name) == [t |-> "function", f |-> name]

Prop(k, v) == [k |-> k, v |-> v]

EmptyObject == << >>

Keys(props) == [i \in 1..Len(props) |-> props[i].k]

KeySet(props) == {props[i].k : i \in 1..Len(props)}

HasOwn(props, key) == key \in KeySet(props)

OwnValue(props, key) == props[CHOOSE i \in 1..Len(props) : props[i].k = key].v

\* props[key] = v on a JavaScript object: an existing key keeps its
\* position, a new key is appended.
SetProp(props, key, v) ==
  IF HasOwn(props, key)
    THEN [i \in 1..Len(props) |->
            IF props[i].k = key THEN Prop(key, v) ELSE props[i]]
    ELSE Append(props, Prop(key, v))

(***************************************************************************)
(* Characters                                                              *)
(***************************************************************************)
\* Characters a..b of s, clamped to the text like String.prototype.substring.
Slice(s, a, b) ==
  LET lo == IF a < 1 THEN 1 ELSE a
      hi == IF b > Len(s) THEN Len(s) ELSE b
  IN  IF lo > hi THEN "" ELSE SubSeq(s, lo, hi)

At(s, i) == Slice(s, i, i)

Digits == {"0", "1", "2", "3", "4", "5", "6", "7", "8", "9"}

Lower == {"a", "b", "c", "d", "e", "f", "g", "h", "i", "j", "k", "l", "m",
          "n", "o", "p", "q", "r", "s", "t", "u", "v", "w", "x", "y", "z"}

Upper == {"A", "B", "C", "D", "E", "F", "G", "H", "I", "J", "K", "L", "M",
          "N", "O", "P", "Q", "R", "S", "T", "U", "V", "W", "X", "Y", "Z"}

\* \w of the regular expression
WordChars == Lower \cup Upper \cup Digits \cup {"_"}

\* [\w\.] of the regular expression
PathChars == WordChars \cup {"."}

\* \s of the regular expression (the ASCII members)
SpaceChars == {" ", "\t", "\n", "\r", "\f"}

DigitVal(c) ==
  CASE c = "0" -> 0 [] c = "1" -> 1 [] c = "2" -> 2 [] c = "3" -> 3
    [] c = "4" -> 4 [] c = "5" -> 5 [] c = "6" -> 6 [] c = "7" -> 7
    [] c = "8" -> 8 [] c = "9" -> 9

RECURSIVE SkipWhile(_, _, _)
\* First position >= p of text whose character is not in class.
SkipWhile(text, p, class) ==
  IF p <= Len(text) /\ At(text, p) \in class
    THEN SkipWhile(text, p + 1, class)
    ELSE p

AllIn(s, class) == SkipWhile(s, 1, class) = Len(s) + 1

RECURSIVE DecimalValue(_, _)
DecimalValue(s, acc) ==
  IF s = "" THEN acc
  ELSE DecimalValue(Tail(s), acc * 10 + DigitVal(Head(s)))

\* A property key that names an array index: "0", "1", ..., no leading zero.
IsIndexKey(key) ==
  /\ key # ""
  /\ AllIn(key, Digits)
  /\ (Len(key) > 1 => Head(key) # "0")

(***************************************************************************)
(* value?.[key]                                                            *)
(***************************************************************************)
\* Properties every object inherits from Object.prototype (a sample).
ObjectPrototypeKeys == {"constructor", "toString", "valueOf", "hasOwnProperty"}

\* The constructor a value of each type inherits.
ConstructorName(t) ==
  CASE t = "object" -> "Object" [] t = "array" -> "Array"
    [] t = "string" -> "String" [] t = "number" -> "Number"
    [] t = "boolean" -> "Boolean" [] OTHER -> "Function"

Inherited(value, key) ==
  IF key = "constructor" THEN Fn(ConstructorName(value.t))
  ELSE IF key \in ObjectPrototypeKeys THEN Fn(key)
  ELSE Undef

GetProp(value, key) ==
  CASE value.t \in {"undefined", "null"} -> Undef
    [] value.t = "object" ->
         IF HasOwn(value.o, key) THEN OwnValue(value.o, key)
         ELSE Inherited(value, key)
    [] value.t = "array" ->
         IF IsIndexKey(key) /\ DecimalValue(key, 0) < Len(value.a)
           THEN value.a[DecimalValue(key, 0) + 1]
         ELSE IF key = "length" THEN Num(Len(value.a))
         ELSE Inherited(value, key)
    [] value.t = "string" ->
         IF IsIndexKey(key) /\ DecimalValue(key, 0) < Len(value.s)
           THEN Str(At(value.s, DecimalValue(key, 0) + 1))
         ELSE IF key = "length" THEN Num(Len(value.s))
         ELSE Inherited(value, key)
    [] OTHER -> Inherited(value, key)

(***************************************************************************)
(* path.split(".")                                                         *)
(***************************************************************************)
RECURSIVE SplitFrom(_, _, _)
SplitFrom(s, p, start) ==
  IF p > Len(s) THEN << Slice(s, start, Len(s)) >>
  ELSE IF At(s, p) = "."
    THEN << Slice(s, start, p - 1) >> \o SplitFrom(s, p + 1, p + 1)
    ELSE SplitFrom(s, p + 1, start)

Split(s) == SplitFrom(s, 1, 1)

RECURSIVE Walk(_, _)
\* for (const key of keys) value = value?.[key]
Walk(value, keys) ==
  IF keys = << >> THEN value
  ELSE Walk(GetProp(value, Head(keys)), Tail(keys))

(***************************************************************************)
(* JSON.stringify(value, null, 2) and String(value)                        *)
(***************************************************************************)
RECURSIVE Pad(_)
Pad(n) == IF n <= 0 THEN "" ELSE " " \o Pad(n - 1)

EscapeChar(c) ==
  CASE c = "\"" -> "\\\""
    [] c = "\\" -> "\\\\"
    [] c = "\n" -> "\\n"
    [] c = "\r" -> "\\r"
    [] c = "\t" -> "\\t"
    [] c = "\f" -> "\\f"
    [] OTHER -> c

RECURSIVE EscapeJson(_)
\* s with every character escaped that JSON.stringify escapes: the run up
\* to the first such character, its escape, and the rest likewise.
EscapeJson(s) ==
  LET stops == {q \in 1..Len(s) : EscapeChar(At(s, q)) # At(s, q)}
  IN  IF stops = {} THEN s
      ELSE LET q == CHOOSE x \in stops : \A y \in stops : x <= y
           IN  Slice(s, 1, q - 1) \o EscapeChar(At(s, q))
                 \o EscapeJson(Slice(s, q + 1, Len(s)))

Quote(s) == "\"" \o EscapeJson(s) \o "\""

\* JSON.stringify drops object properties holding these.
Unserializable(v) == v.t \in {"undefined", "function"}

RECURSIVE JoinLines(_, _)
\* parts joined by ",\n", each preceded by ind spaces
JoinLines(parts, ind) ==
  IF parts = << >> THEN ""
  ELSE Pad(ind) \o Head(parts)
         \o (IF Len(parts) > 1 THEN ",\n" ELSE "")
         \o JoinLines(Tail(parts), ind)

RECURSIVE Stringify(_, _)
RECURSIVE PropParts(_, _)
RECURSIVE ItemParts(_, _)
PropParts(props, ind) ==
  IF props = << >> THEN << >>
  ELSE (IF Unserializable(Head(props).v) THEN << >>
        ELSE << Quote(Head(props).k) \o ": " \o Stringify(Head(props).v, ind) >>)
       \o PropParts(Tail(props), ind)

ItemParts(items, ind) ==
  IF items = << >> THEN << >>
  ELSE << IF Unserializable(Head(items)) THEN "null"
          ELSE Stringify(Head(items), ind) >>
       \o ItemParts(Tail(items), ind)

\* The text of value when it starts at indentation ind (two spaces a level).
Stringify(value, ind) ==
  CASE value.t = "null" -> "null"
    [] value.t = "boolean" -> IF value.b THEN "true" ELSE "false"
    [] value.t = "number" -> ToString(value.n)
    [] value.t = "string" -> Quote(value.s)
    [] value.t = "array" ->
         IF value.a = << >> THEN "[]"
         ELSE "[\n" \o JoinLines(ItemParts(value.a, ind + 2), ind + 2)
                \o "\n" \o Pad(ind) \o "]"
    [] value.t = "object" ->
         IF PropParts(value.o, ind + 2) = << >> THEN "{}"
         ELSE "{\n" \o JoinLines(PropParts(value.o, ind + 2), ind + 2)
                \o "\n" \o Pad(ind) \o "}"
    [] OTHER -> ""

\* String(value) for the values typeof does not call "object"
StringOf(value) ==
  CASE value.t = "string" -> value.s
    [] value.t = "number" -> ToString(value.n)
    [] value.t = "boolean" -> IF value.b THEN "true" ELSE "false"
    [] value.t = "function" -> "function " \o value.f \o "() { [native code] }"
    [] OTHER -> ""

\* No value is taken for an object: everything goes through String(value).
TypeofObjectNever(value) == FALSE

\* typeof value === "object"
TypeofObject(value) == value.t \in {"object", "array", "null"}

(***************************************************************************)
(* interpolate(text, context)                                              *)
(***************************************************************************)
\* A path that leads to no value is left in the text.
ReplacementKeepsPath(path, context) ==
  LET value == Walk(context, Split(path))
  IN  IF value # Undef
        THEN IF TypeofObject(value) THEN Stringify(value, 0)
             ELSE StringOf(value)
        ELSE path

\* null and 0 are rendered as the empty text, like undefined.
ReplacementFalsyEmpty(path, context) ==
  LET value == Walk(context, Split(path))
  IN  IF value \notin {Undef, Null, Num(0)}
        THEN IF TypeofObject(value) THEN Stringify(value, 0)
             ELSE StringOf(value)
        ELSE ""

\* The replacement computed by the callback for the captured path.
Replacement(path, context) ==
  LET value == Walk(context, Split(path))
  IN  IF value # Undef
        THEN IF TypeofObject(value) THEN Stringify(value, 0)
             ELSE StringOf(value)
        ELSE ""

\* The expression with ([\w\.]*): an empty path also matches.
MatchAtEmptyPath(text, p) ==
  LET q1 == SkipWhile(text, p + 2, SpaceChars)
      q2 == SkipWhile(text, q1, PathChars)
      q3 == SkipWhile(text, q2, SpaceChars)
  IN  IF /\ Slice(text, p, p + 1) = "{{"
         /\ Slice(text, q3, q3 + 1) = "}}"
        THEN [ok |-> TRUE, path |-> Slice(text, q1, q2 - 1), end |-> q3 + 2]
        ELSE [ok |-> FALSE, path |-> "", end |-> p]

\* Match of /\{\{\s*([\w\.]+)\s*\}\}/ anchored at position p.  The classes
\* \s, [\w\.] and } are disjoint, so the greedy match is the only one.
MatchAt(text, p) ==
  LET q1 == SkipWhile(text, p + 2, SpaceChars)
      q2 == SkipWhile(text, q1, PathChars)
      q3 == SkipWhile(text, q2, SpaceChars)
  IN  IF /\ Slice(text, p, p + 1) = "{{"
         /\ q2 > q1
         /\ Slice(text, q3, q3 + 1) = "}}"
        THEN [ok |-> TRUE, path |-> Slice(text, q1, q2 - 1), end |-> q3 + 2]
        ELSE [ok |-> FALSE, path |-> "", end |-> p]

RECURSIVE ReplaceFrom(_, _, _)
\* text.replace(re, callback) with the g flag, scanning from position p: the
\* text up to the leftmost match is kept, the match is replaced, and the
\* scan goes on behind the match; replaced text is not scanned again.
ReplaceFrom(text, p, context) ==
  LET starts == {q \in p..Len(text) : MatchAt(text, q).ok}
  IN  IF starts = {} THEN Slice(text, p, Len(text))
      ELSE LET q == CHOOSE x \in starts : \A y \in starts : x <= y
               m == MatchAt(text, q)
           IN  Slice(text, p, q - 1) \o Replacement(m.path, context)
                 \o ReplaceFrom(text, m.end, context)

\* The text that results is scanned for placeholders once more.
interpolateTwice(text, context) ==
  IF text.t # "string" THEN text
  ELSE Str(ReplaceFrom(CHOOSE once \in {ReplaceFrom(text.s, 1, Obj(context))} : TRUE,
                        1, Obj(context)))

\* text is a JavaScript value, context the properties of the context object.
\* A non-string text is returned as it is.
interpolate(text, context) ==
  IF text.t # "string" THEN text
  ELSE Str(ReplaceFrom(text.s, 1, Obj(context)))

(***************************************************************************)
(* JSON.parse(text), for texts without fractions, exponents or \u escapes  *)
(***************************************************************************)
JsonSpace == {" ", "\t", "\n", "\r"}

NoParse == [ok |-> FALSE, v |-> Undef, end |-> 0]

Parsed(v, end) == [ok |-> TRUE, v |-> v, end |-> end]

Unescape(c) ==
  CASE c = "n" -> "\n" [] c = "t" -> "\t" [] c = "r" -> "\r" [] c = "f" -> "\f"
    [] OTHER -> c

RECURSIVE ParseChars(_, _, _)
\* The characters of a string literal after its opening quote: the run up
\* to the next quote, backslash or control character, then what that
\* character asks for.
ParseChars(s, p, acc) ==
  LET stops == {q \in p..Len(s) :
                  At(s, q) \in {"\"", "\\", "\n", "\r", "\t", "\f"}}
  IN  IF stops = {} THEN NoParse
      ELSE LET q == CHOOSE x \in stops : \A y \in stops : x <= y
               run == acc \o Slice(s, p, q - 1)
           IN  IF At(s, q) = "\"" THEN Parsed(Str(run), q + 1)
               ELSE IF At(s, q) = "\\"
                 THEN IF At(s, q + 1) \in {"\"", "\\", "/", "n", "t", "r", "f"}
                        THEN ParseChars(s, q + 2, run \o Unescape(At(s, q + 1)))
                        ELSE NoParse
               ELSE NoParse

ParseNumber(s, p) ==
  LET neg == At(s, p) = "-"
      d1 == IF neg THEN p + 1 ELSE p
      d2 == SkipWhile(s, d1, Digits)
      digits == Slice(s, d1, d2 - 1)
  IN  IF d2 = d1 \/ (Len(digits) > 1 /\ Head(digits) = "0")
           \/ At(s, d2) \in {".", "e", "E"}
        THEN NoParse
        ELSE Parsed(Num(IF neg THEN 0 - DecimalValue(digits, 0)
                        ELSE DecimalValue(digits, 0)), d2)

RECURSIVE ParseValue(_, _)
RECURSIVE ParseItems(_, _, _)
RECURSIVE ParseMembers(_, _, _)
\* The items of an array after "[" or ",", items so far in acc.
ParseItems(s, p, acc) ==
  LET item == ParseValue(s, p)
      q == SkipWhile(s, item.end, JsonSpace)
  IN  IF ~item.ok THEN NoParse
      ELSE IF At(s, q) = "," THEN ParseItems(s, q + 1, Append(acc, item.v))
      ELSE IF At(s, q) = "]" THEN Parsed(Arr(Append(acc, item.v)), q + 1)
      ELSE NoParse

\* The members of an object after "{" or ",", members so far in acc.
ParseMembers(s, p, acc) ==
  LET k1 == SkipWhile(s, p, JsonSpace)
      key == IF At(s, k1) = "\"" THEN ParseChars(s, k1 + 1, "") ELSE NoParse
      c == SkipWhile(s, key.end, JsonSpace)
      val == IF key.ok /\ At(s, c) = ":" THEN ParseValue(s, c + 1) ELSE NoParse
      q == SkipWhile(s, val.end, JsonSpace)
  IN  IF ~val.ok THEN NoParse
      ELSE IF At(s, q) = ","
        THEN ParseMembers(s, q + 1, SetProp(acc, key.v.s, val.v))
      ELSE IF At(s, q) = "}"
        THEN Parsed(Obj(SetProp(acc, key.v.s, val.v)), q + 1)
      ELSE NoParse

\* One JSON value starting at or after position p.
ParseValue(s, p) ==
  LET q == SkipWhile(s, p, JsonSpace)
      c == At(s, q)
  IN  CASE Slice(s, q, q + 3) = "null" -> Parsed(Null, q + 4)
        [] Slice(s, q, q + 3) = "true" -> Parsed(Bool(TRUE), q + 4)
        [] Slice(s, q, q + 4) = "false" -> Parsed(Bool(FALSE), q + 5)
        [] c = "\"" -> ParseChars(s, q + 1, "")
        [] c = "[" ->
             IF At(s, SkipWhile(s, q + 1, JsonSpace)) = "]"
               THEN Parsed(Arr(<< >>), SkipWhile(s, q + 1, JsonSpace) + 1)
               ELSE ParseItems(s, q + 1, << >>)
        [] c = "{" ->
             IF At(s, SkipWhile(s, q + 1, JsonSpace)) = "}"
               THEN Parsed(Obj(<< >>), SkipWhile(s, q + 1, JsonSpace) + 1)
               ELSE ParseMembers(s, q + 1, << >>)
        [] c = "-" \/ c \in Digits -> ParseNumber(s, q)
        [] OTHER -> NoParse

\* [ok |-> FALSE] stands for the SyntaxError.
JsonParse(s) ==
  LET r == ParseValue(s, 1)
  IN  IF r.ok /\ SkipWhile(s, r.end, JsonSpace) = Len(s) + 1
        THEN r ELSE NoParse

(***************************************************************************)
(* Plugins (tools/reusable/git.ts, tools/reusable/github.ts and the older  *)
(* GitHub plugin of tools/agent-specific/sentry.ts)                        *)
(***************************************************************************)
PluginIds == {"git", "github", "github_legacy"}

\* plugin.name
PluginName(p) ==
  CASE p = "git" -> "git"
    [] p = "github" -> "github"
    [] p = "github_legacy" -> "github"

\* plugin.registerTools().map(t => t.name)
PluginTools(p) ==
  CASE p = "git" -> << "git_clone" >>
    [] p = "github" -> << "github_clone", "github_create_pr",
                          "github_get_pr", "github_comment_pr" >>
    [] p = "github_legacy" -> << "github_create_pr" >>

\* Whether plugin.init(config) rejects; hasToken: config.GITHUB_TOKEN is set.
InitRejects(p, hasToken) == p = "github" /\ ~hasToken

(***************************************************************************)
(* Workflows                                                               *)
(***************************************************************************)
MaxSteps == 3

MaxPlugins == 2

MaxMcpCalls == 1

StepClone ==
  [id |-> "A", type |-> "tool", tool |-> "git_clone",
   args |-> << Prop("repo_url", Str("https://example.com/r.git")),
               Prop("target_dir", Str("./w")) >>,
   if |-> Str("")]

StepReview ==
  [id |-> "B", type |-> "ai_agent", tool |-> "",
   args |-> << Prop("prompt", Str("Review PR {{ input.pr }} in {{A.output.url}}")),
               Prop("working_dir", Str("./w")) >>,
   if |-> Undef]

StepCreatePr ==
  [id |-> "C", type |-> "tool", tool |-> "github_create_pr",
   args |-> << Prop("title", Str("Fix: {{B.output}}")) >>,
   if |-> Str("{{B.output.has_issues}}")]

StepIfOk ==
  [id |-> "E", type |-> "tool", tool |-> "git_clone",
   args |-> << Prop("repo_url", Str("{{A.output.url}}")),
               Prop("depth", Num(1)),
               Prop("options", Obj(<< Prop("ref", Str("{{A.output.url}}")) >>)) >>,
   if |-> Str("{{ A.output.ok }}")]

StepNoTool ==
  [id |-> "F", type |-> "tool", tool |-> "", args |-> << >>, if |-> Undef]

StepCatalog ==
  {StepClone, StepReview, StepCreatePr, StepIfOk, StepNoTool}

\* The workflow files loadWorkflow may read.
Workflows == UNION {[1..n -> StepCatalog] : n \in 1..MaxSteps}

\* JSON.parse(process.env.WEBHOOK_PAYLOAD) for a webhook that names a pull
\* request (the payload is {} when the variable is unset)
Payloads == {Obj(<< Prop("pr", Num(7)) >>)}

\* content of the CallToolResult a plugin may return: its text segments
ToolResults ==
  { << "{\"ok\": true, \"url\": \"https://example.com/r.git\"}" >>,
    << "{\"ok\": false}" >>,
    << "Cloned", "into ./w" >> }

\* result.output of a successful agent invocation
AgentOutputs == {"Found 1 issue"}

(***************************************************************************)
(* JavaScript truthiness                                                   *)
(***************************************************************************)
Truthy(v) ==
  CASE v.t \in {"undefined", "null"} -> FALSE
    [] v.t = "boolean" -> v.b
    [] v.t = "number" -> v.n # 0
    [] v.t = "string" -> v.s # ""
    [] OTHER -> TRUE

(***************************************************************************)
(* Runner.validateTools                                                    *)
(***************************************************************************)
RECURSIVE ToolList(_)
\* (tool, plugin name) pairs in the order the two loops visit them
ToolList(ps) ==
  IF ps = << >> THEN << >>
  ELSE [j \in 1..Len(PluginTools(Head(ps))) |->
          [tool |-> PluginTools(Head(ps))[j], plugin |-> PluginName(Head(ps))]]
       \o ToolList(Tail(ps))

ToolNames(ps) ==
  LET list == ToolList(ps) IN {list[j].tool : j \in 1..Len(list)}

\* No tool name is compared with the ones already seen.
DuplicatesNone(ps) == {}

\* Positions of ToolList whose tool was already seen: availableTools.has
Duplicates(ps) ==
  LET list == ToolList(ps)
  IN  {j \in 1..Len(list) : \E k \in 1..(j - 1) : list[k].tool = list[j].tool}

\* No step is checked against the available tools.
MissingToolsUnchecked(steps, available) == << >>

RECURSIVE MissingToolsNameless(_, _)
\* A tool step without a tool name counts as naming a missing tool.
MissingToolsNameless(steps, available) ==
  IF steps = << >> THEN << >>
  ELSE (IF Head(steps).type = "tool" /\ Head(steps).tool \notin available
          THEN << Head(steps).tool >> ELSE << >>)
       \o MissingToolsNameless(Tail(steps), available)

RECURSIVE MissingTools(_, _)
\* missingTools, in step order
MissingTools(steps, available) ==
  IF steps = << >> THEN << >>
  ELSE (IF Head(steps).type = "tool" /\ Head(steps).tool # ""
           /\ Head(steps).tool \notin available
          THEN << Head(steps).tool >> ELSE << >>)
       \o MissingTools(Tail(steps), available)

\* The error validateTools throws, "none" when it returns.
validateTools(ps, steps) ==
  IF Duplicates(ps) # {} THEN "duplicate"
  ELSE IF MissingTools(steps, ToolNames(ps)) # << >> THEN "missing"
  ELSE "none"

(***************************************************************************)
(* Pieces of Runner.runWorkflow                                            *)
(***************************************************************************)
\* const context = {} : the second argument of the call is not a parameter.
InitialContext(arg) == EmptyObject

\* Only an empty condition skips the step; "false" does not.
ShouldSkipOnlyEmpty(step, context) ==
  /\ Truthy(step.if)
  /\ ~Truthy(interpolate(step.if, context))

\* if (step.if) { condition = interpolate(...);
\*                if (!condition || condition === "false") continue }
ShouldSkip(step, context) ==
  /\ Truthy(step.if)
  /\ LET condition == interpolate(step.if, context)
     IN  ~Truthy(condition) \/ condition = Str("false")

\* The arguments are handed on as they are written in the workflow.
InterpolateArgsNever(args, context) == args

RECURSIVE InterpolateArgs(_, _)
\* args[k] = typeof v === "string" ? interpolate(v, context) : v
InterpolateArgs(args, context) ==
  IF args = << >> THEN << >>
  ELSE << Prop(Head(args).k, interpolate(Head(args).v, context)) >>
       \o InterpolateArgs(Tail(args), context)

\* obj[key] for an object built from own properties only
Lookup(props, key) == IF HasOwn(props, key) THEN OwnValue(props, key) ELSE Undef

\* a || b
OrElse(a, b) == IF Truthy(a) THEN a ELSE b

MAX_CHARS == 2000 * 4

RECURSIVE SegmentsFrom(_, _, _)
\* The parts of a path between its "/" separators.
SegmentsFrom(s, p, start) ==
  IF p > Len(s) THEN << Slice(s, start, Len(s)) >>
  ELSE IF At(s, p) = "/"
    THEN << Slice(s, start, p - 1) >> \o SegmentsFrom(s, p + 1, p + 1)
    ELSE SegmentsFrom(s, p + 1, start)

RECURSIVE NormalizeSegments(_, _)
\* Empty and "." segments are dropped, ".." removes the segment before it.
NormalizeSegments(segs, acc) ==
  IF segs = << >> THEN acc
  ELSE IF Head(segs) \in {"", "."} THEN NormalizeSegments(Tail(segs), acc)
  ELSE IF Head(segs) = ".."
    THEN NormalizeSegments(Tail(segs),
                           IF acc = << >> THEN acc
                           ELSE SubSeq(acc, 1, Len(acc) - 1))
  ELSE NormalizeSegments(Tail(segs), Append(acc, Head(segs)))

RECURSIVE SlashPath(_)
\* "/" before each segment
SlashPath(segs) ==
  IF segs = << >> THEN "" ELSE "/" \o Head(segs) \o SlashPath(Tail(segs))

\* process.cwd()
Cwd == "/app"

\* path.resolve(cwd, dir) on POSIX: an absolute dir stands for itself, the
\* result is normalized and has no trailing separator.
Resolve(cwd, dir) ==
  LET full == IF At(dir, 1) = "/" THEN dir ELSE cwd \o "/" \o dir
      segs == NormalizeSegments(SegmentsFrom(full, 1, 1), << >>)
  IN  IF segs = << >> THEN "/" ELSE SlashPath(segs)

\* path.join(os.tmpdir(), `prompt_${step.id}_${Date.now()}.txt`)
TempPromptFile(id, now) ==
  "/tmp/prompt_" \o id \o "_" \o ToString(now) \o ".txt"

TruncationNote(file) ==
  "\n\n[Note: The full prompt was truncated. I have saved the complete details to the file '"
    \o file
    \o "' (outside the workspace). You can read it if needed, but it is large.]"

\* The note is also appended to a prompt of exactly MAX_CHARS characters.
TruncatedPromptFrom(fullPrompt, file) ==
  Slice(fullPrompt, 1, MAX_CHARS)
    \o (IF Len(fullPrompt) >= MAX_CHARS THEN TruncationNote(file) ELSE "")

TruncatedPrompt(fullPrompt, file) ==
  Slice(fullPrompt, 1, MAX_CHARS)
    \o (IF Len(fullPrompt) > MAX_CHARS THEN TruncationNote(file) ELSE "")

\* Every invocation continues the previous session.
ContinueAlways(isFirst) == TRUE

\* shouldContinuePreviousSession: !isFirstAiAgentStep
ContinueDirective(isFirst) == ~isFirst

\* The lookup finds no plugin, whatever is registered.
FindPluginNone(ps, toolName) == 0

\* this.plugins.find(p => p.registerTools().some(t => t.name === toolName)):
\* position of the first such plugin, 0 when there is none
FindPlugin(ps, toolName) ==
  LET hits == {j \in 1..Len(ps) :
                 \E k \in 1..Len(PluginTools(ps[j])) :
                    PluginTools(ps[j])[k] = toolName}
  IN  IF hits = {} THEN 0 ELSE CHOOSE j \in hits : \A k \in hits : j <= k

RECURSIVE Join(_, _)
\* parts.join(sep)
Join(parts, sep) ==
  IF parts = << >> THEN ""
  ELSE IF Len(parts) = 1 THEN Head(parts)
  ELSE Head(parts) \o sep \o Join(Tail(parts), sep)

(***************************************************************************)
(* Messages of the errors thrown                                           *)
(***************************************************************************)
RECURSIVE KeysFrom(_, _, _)
\* The tools of list from position j on, without those already seen
KeysFrom(list, seen, j) ==
  IF j > Len(list) THEN << >>
  ELSE (IF j \in seen THEN << >> ELSE << list[j].tool >>)
       \o KeysFrom(list, seen, j + 1)

\* Array.from(availableTools.keys()): each tool name once, in insertion order
AvailableKeys(ps) == KeysFrom(ToolList(ps), Duplicates(ps), 1)

\* The message of the first duplicate the two loops meet: the tool, the
\* plugin that set it (availableTools.get) and the plugin being visited.
DuplicateMessage(ps) ==
  LET list == ToolList(ps)
      j == CHOOSE d \in Duplicates(ps) : \A e \in Duplicates(ps) : d <= e
      k == CHOOSE f \in 1..(j - 1) :
             /\ list[f].tool = list[j].tool
             /\ \A g \in 1..(f - 1) : list[g].tool # list[j].tool
  IN  "Duplicate tool name detected: \"" \o list[j].tool
        \o "\" is provided by both \"" \o list[k].plugin
        \o "\" and \"" \o list[j].plugin \o "\" plugins"

\* The message names only the first missing tool.
MissingMessageFirst(steps, ps) ==
  "Workflow references tools that are not available: "
    \o Head(MissingTools(steps, ToolNames(ps)))
    \o "\nAvailable tools: " \o Join(AvailableKeys(ps), ", ")
    \o "\nMake sure the required plugins are registered in index.ts"

\* `Workflow references tools that are not available: ${missingTools.join(", ")}\n`
\* + `Available tools: ${Array.from(availableTools.keys()).join(", ")}\n` + ...
MissingMessage(steps, ps) ==
  "Workflow references tools that are not available: "
    \o Join(MissingTools(steps, ToolNames(ps)), ", ")
    \o "\nAvailable tools: " \o Join(AvailableKeys(ps), ", ")
    \o "\nMake sure the required plugins are registered in index.ts"

\* error.message of what validateTools throws
ValidationMessage(ps, steps) ==
  IF Duplicates(ps) # {} THEN DuplicateMessage(ps)
  ELSE MissingMessage(steps, ps)

\* error.message of a rejected plugin.init (tools/reusable/github.ts)
InitMessage(p) == "GitHub plugin requires GITHUB_TOKEN credential"

\* throw new Error("Tool name missing")
ToolNameMissing == "Tool name missing"

\* throw new Error(`Plugin for tool ${toolName} not found`)
PluginNotFound(toolName) == "Plugin for tool " \o toolName \o " not found"

\* TypeError of path.resolve / fs.writeFile for an argument that is no string
ArgTypeMessage(name) ==
  "The \"" \o name \o "\" argument must be of type string"

\* Messages of the rejections of fs.writeFile, runAgent and handleToolCall
WriteError == "ENOSPC: no space left on device, write"

AgentError == "Claude Code process exited with code 1"

ToolError == "Repository not found"

\* The text is kept as it is, JSON or not.
OutputDataRaw(outputText) == Str(outputText)

\* let outputData = outputText; try { outputData = JSON.parse(outputText) }
OutputData(outputText) ==
  LET parsed == JsonParse(outputText)
  IN  IF parsed.ok THEN parsed.v ELSE Str(outputText)

\* The entry replaces the context instead of being added to it.
WriteEntryAlone(context, id, output) ==
  << Prop(id, Obj(<< Prop("output", output) >>)) >>

\* An id that has an entry keeps it: the later output is dropped.
WriteEntryKeepsFirst(context, id, output) ==
  IF HasOwn(context, id) THEN context
  ELSE SetProp(context, id, Obj(<< Prop("output", output) >>))

\* context[step.id] = { output: ... }
WriteEntry(context, id, output) ==
  SetProp(context, id, Obj(<< Prop("output", output) >>))

\* exitCode while the process is running
NoExit == 0 - 1

\* The catch block without process.exit: the loop goes on.
AfterStepErrorContinue(index) ==
  [pc |-> "loop", i |-> index + 1, exitCode |-> NoExit]

\* Where the loop stands after the catch block: process.exit(1)
AfterStepError(index) == [pc |-> "exited", i |-> index, exitCode |-> 1]

\* A call that is started and not awaited: the loop goes on.
AwaitNothing(what) == "loop"

\* Where the function stands while a promise is awaited.
Await(what) == what

(***************************************************************************)
(* State                                                                   *)
(***************************************************************************)
VARIABLES
  pc,                  \* where main / runWorkflow stands
  plugins,             \* Runner.plugins
  pluginRegistry,      \* Runner.pluginRegistry: plugin name -> plugin
  workflow,            \* workflow.steps as loaded
  initialContext,      \* second argument main passes to runWorkflow
  context,             \* context of runWorkflow
  isFirstAiAgentStep,  \* session flag of runWorkflow
  i,                   \* position of the for loop in workflow.steps
  pending,             \* the call being awaited
  inflight,            \* number of step-level calls started and not settled
  error,               \* what was thrown, "none" so far
  errorMessage,        \* error.message as logger.error / logger.stepError reports it
  exitCode,            \* process exit status, NoExit while running
  log,                 \* logger step events
  promptFiles,         \* fs.writeFile calls that succeeded
  agentCalls,          \* runAgent invocations
  toolCalls,           \* plugin.handleToolCall invocations made by steps
  mcpCalls,            \* handleToolCall invocations of the runAgent call in flight
  interp               \* one call of interpolate: its arguments and result

\* The credential manager (framework/services/credential-manager.ts)
VARIABLES
  credentials,         \* CredentialManager.credentials, Null before the fetch
  fetchPromise,        \* CredentialManager.fetchPromise: a promise, 0 for null
  promises,            \* the promises _performFetch has returned
  callers              \* the calls of fetchCredentials

credVars == << credentials, fetchPromise, promises, callers >>

VARIABLES
  diff,                \* what getPRDiff returned to the review script
  queries,             \* the query() calls of the process, by their prompts
  received,            \* the messages of the agent stream consumed so far
  review,              \* review of review.ts main, Null until one parsed
  response,            \* response of respond.ts main, Null until one parsed
  posts,               \* the POST requests the process sent to GitHub
  prComments,          \* the comments on the pull request
  agentLogin,          \* login of the user GITHUB_TOKEN belongs to
  newComments,         \* NEW_COMMENTS as parsed
  hasNewCommits,       \* HAS_NEW_COMMITS
  externalComments,    \* externalComments of respond.ts main
  flagFile             \* content of /tmp/should_re_review.txt, "" while absent

\* runAgent (framework/utils/agent.ts)
VARIABLES
  finalResult,         \* finalResult of runAgent, Null until a result message
  agentResult          \* the promise runAgent returned

\* slack_wait_approval (tools/reusable/slack.ts)
VARIABLES
  clock,               \* Date.now(), in ms since the tool was called
  startTime,           \* startTime of the call
  timeout,             \* timeout of the call, in ms
  lastPoll,            \* the last reactions.get request of the call
  waitResult           \* the promise handleToolCall returned

slackVars == << clock, startTime, timeout, lastPoll, waitResult >>

\* The standalone MCP server (framework/core/mcp-server.ts)
VARIABLES
  requestedPluginNames, \* JSON.parse(process.env.PLUGINS)
  config,               \* the names of the variables set in process.env
  activePlugins,        \* activePlugins of runServer
  nextPlugin,           \* position of the initialisation loop
  serverReply           \* the answer to the last request of the client

serverVars ==
  << requestedPluginNames, config, activePlugins, nextPlugin, serverReply >>

utilVars == << finalResult, agentResult, slackVars, serverVars >>

scriptVars ==
  << diff, queries, received, review, response, posts, prComments, agentLogin,
     newComments, hasNewCommits, externalComments, flagFile, utilVars >>

vars ==
  << pc, plugins, pluginRegistry, workflow, initialContext, context,
     isFirstAiAgentStep, i, pending, inflight, error, errorMessage, exitCode,
     log, promptFiles, agentCalls, toolCalls, mcpCalls, interp, credVars, scriptVars >>

NoCall == [kind |-> "none"]

\* Date.now() readings (within the 32-bit integers of the checker)
Clock == {1700000000}

\* interpolate is not being called on its own.
NoInterp == [called |-> FALSE]

\* The state of a Runner after construction.
RunnerInit ==
  /\ plugins = << >>
  /\ pluginRegistry = << >>
  /\ workflow = << >>
  /\ initialContext = EmptyObject
  /\ context = EmptyObject
  /\ isFirstAiAgentStep = TRUE
  /\ i = 1
  /\ pending = NoCall
  /\ inflight = 0
  /\ error = "none"
  /\ errorMessage = ""
  /\ exitCode = NoExit
  /\ log = << >>
  /\ promptFiles = << >>
  /\ agentCalls = << >>
  /\ toolCalls = << >>
  /\ mcpCalls = << >>

MaxCallers == 4

Callers == 1..MaxCallers

\* The singleton after construction; no caller has called yet.
CredentialManagerInit ==
  /\ credentials = Null
  /\ fetchPromise = 0
  /\ promises = << >>
  /\ callers = [c \in Callers |-> [at |-> "idle"]]

\* The utilities and the standalone server before any of them has run.
UtilsInit ==
  /\ finalResult = Null
  /\ agentResult = [state |-> "pending"]
  /\ clock = 0
  /\ startTime = 0
  /\ timeout = 0
  /\ lastPoll = [state |-> "none"]
  /\ waitResult = [state |-> "pending"]
  /\ requestedPluginNames = << >>
  /\ config = {}
  /\ activePlugins = << >>
  /\ nextPlugin = 1
  /\ serverReply = [kind |-> "none"]

\* Neither script has been started.
ScriptsInit ==
  /\ diff = ""
  /\ queries = << >>
  /\ received = << >>
  /\ review = Null
  /\ response = Null
  /\ posts = << >>
  /\ prComments = << >>
  /\ agentLogin = ""
  /\ newComments = << >>
  /\ hasNewCommits = FALSE
  /\ externalComments = << >>
  /\ flagFile = ""
  /\ UtilsInit

Init ==
  /\ pc = "main"
  /\ interp = NoInterp
  /\ RunnerInit
  /\ CredentialManagerInit
  /\ ScriptsInit

runVars ==
  << workflow, initialContext, context, isFirstAiAgentStep, i, pending,
     inflight, log, promptFiles, agentCalls, toolCalls, mcpCalls, interp, credVars, scriptVars >>

\* A catch that logs and lets the process end on its own, with status 0.
MainRejectsAndReturns(what, message) ==
  /\ pc' = "exited"
  /\ error' = what
  /\ errorMessage' = message
  /\ exitCode' = 0

\* main().catch: logger.error(...); process.exit(1)
MainRejects(what, message) ==
  /\ pc' = "exited"
  /\ error' = what
  /\ errorMessage' = message
  /\ exitCode' = 1

(***************************************************************************)
(* await runner.registerPlugin(plugin, config)                             *)
(***************************************************************************)
\* A registerPlugin that also rejects a tool name already registered.
RegistrationErrorDuplicate(ps, p, hasToken) ==
  IF InitRejects(p, hasToken) THEN "init"
  ELSE IF \E k \in 1..Len(PluginTools(p)) : PluginTools(p)[k] \in ToolNames(ps)
    THEN "duplicate"
  ELSE "none"

\* What registerPlugin throws for plugin p when ps are registered, "none"
\* when it returns: only await plugin.init(config) can throw.
RegistrationError(ps, p, hasToken) ==
  IF InitRejects(p, hasToken) THEN "init" ELSE "none"

\* The plugin is recorded before its init is awaited.
RegisterPluginBeforeInit(p, hasToken) ==
  /\ pc = "main"
  /\ Len(plugins) < MaxPlugins
  /\ plugins' = Append(plugins, p)
  /\ pluginRegistry' =
       [n \in DOMAIN pluginRegistry \cup {PluginName(p)} |->
          IF n = PluginName(p) THEN p ELSE pluginRegistry[n]]
  /\ IF RegistrationError(plugins, p, hasToken) # "none"
       THEN MainRejects(RegistrationError(plugins, p, hasToken),
                        InitMessage(p))
       ELSE UNCHANGED << pc, error, errorMessage, exitCode >>
  /\ UNCHANGED runVars

RegisterPlugin(p, hasToken) ==
  /\ pc = "main"
  /\ Len(plugins) < MaxPlugins
  /\ IF RegistrationError(plugins, p, hasToken) # "none"
       THEN /\ MainRejects(RegistrationError(plugins, p, hasToken),
                           InitMessage(p))
            /\ UNCHANGED << plugins, pluginRegistry >>
       ELSE /\ plugins' = Append(plugins, p)
            /\ pluginRegistry' =
                 [n \in DOMAIN pluginRegistry \cup {PluginName(p)} |->
                    IF n = PluginName(p) THEN p ELSE pluginRegistry[n]]
            /\ UNCHANGED << pc, error, errorMessage, exitCode >>
  /\ UNCHANGED runVars

(***************************************************************************)
(* await runner.runWorkflow(workflowPath, { input: webhookPayload }), up   *)
(* to the for loop: loadWorkflow, validateTools, createMcpServer           *)
(***************************************************************************)
RunWorkflowWith(steps, payload) ==
  /\ workflow' = steps
  /\ initialContext' = << Prop("input", payload) >>
  /\ LET thrown == validateTools(plugins, steps)
     IN  IF thrown # "none"
           THEN /\ MainRejects(thrown, ValidationMessage(plugins, steps))
                /\ UNCHANGED << context, isFirstAiAgentStep, i >>
           ELSE /\ pc' = "loop"
                /\ context' = InitialContext(<< Prop("input", payload) >>)
                /\ isFirstAiAgentStep' = TRUE
                /\ i' = 1
                /\ UNCHANGED << error, errorMessage, exitCode >>
  /\ UNCHANGED << plugins, pluginRegistry, pending, inflight, log,
                  promptFiles, agentCalls, toolCalls, mcpCalls, interp, credVars, scriptVars >>

\* steps: the file loadWorkflow reads; payload: the webhook payload of main
RunWorkflow ==
  /\ pc = "main"
  /\ \E steps \in Workflows, payload \in Payloads :
       RunWorkflowWith(steps, payload)

(***************************************************************************)
(* The for loop of runWorkflow                                             *)
(***************************************************************************)
\* The catch block ends the process without logging the error.
StepErrorSilent(id, startLog, message) ==
  /\ log' = startLog
  /\ errorMessage' = message
  /\ pc' = AfterStepError(i).pc
  /\ i' = AfterStepError(i).i
  /\ exitCode' = AfterStepError(i).exitCode
  /\ error' = "step"
  /\ pending' = NoCall

\* catch (error) { logger.stepError(...); process.exit(1) }
StepError(id, startLog, message) ==
  /\ log' = Append(startLog, << "step_error", id >>)
  /\ errorMessage' = message
  /\ pc' = AfterStepError(i).pc
  /\ i' = AfterStepError(i).i
  /\ exitCode' = AfterStepError(i).exitCode
  /\ error' = "step"
  /\ pending' = NoCall

\* logger.stepComplete(step.id) and the next iteration
StepComplete(id) ==
  /\ log' = Append(log, << "step_complete", id >>)
  /\ pc' = "loop"
  /\ i' = i + 1
  /\ pending' = NoCall

\* One iteration from its top to its first await, its continue or its exit.
BeginStep(now) ==
  /\ pc = "loop"
  /\ i <= Len(workflow)
  /\ LET step == workflow[i]
         started == Append(log, << "step_start", step.id >>)
         args == InterpolateArgs(step.args, context)
         fullPrompt == OrElse(Lookup(args, "prompt"), Str(""))
         dir == OrElse(Lookup(args, "working_dir"), Str("."))
         file == TempPromptFile(step.id, now)
         owner == FindPlugin(plugins, step.tool)
     IN  IF ShouldSkip(step, context)
           THEN /\ log' = Append(started, << "step_skip", step.id >>)
                /\ i' = i + 1
                /\ UNCHANGED << pc, pending, inflight, error, errorMessage, exitCode,
                                toolCalls >>
         ELSE IF step.type = "ai_agent"
           THEN IF fullPrompt.t = "string" /\ dir.t = "string"
                  THEN /\ pending' = [kind |-> "write", file |-> file,
                                      prompt |-> fullPrompt.s,
                                      workingDir |-> Resolve(Cwd, dir.s)]
                       /\ pc' = Await("write")
                       /\ log' = started
                       /\ UNCHANGED << i, inflight, error, errorMessage, exitCode,
                                       toolCalls >>
                  ELSE /\ StepError(step.id, started,
                                      ArgTypeMessage(IF dir.t # "string"
                                                       THEN "paths[1]"
                                                       ELSE "data"))
                       /\ UNCHANGED << inflight, toolCalls >>
         ELSE IF step.type = "tool"
           THEN IF step.tool = "" \/ owner = 0
                  THEN /\ StepError(step.id, started,
                                      IF step.tool = "" THEN ToolNameMissing
                                      ELSE PluginNotFound(step.tool))
                       /\ UNCHANGED << inflight, toolCalls >>
                  ELSE /\ toolCalls' =
                            Append(toolCalls,
                                   [step |-> i, tool |-> step.tool,
                                    plugin |-> plugins[owner], args |-> args])
                       /\ pending' = [kind |-> "tool", tool |-> step.tool]
                       /\ inflight' = inflight + 1
                       /\ pc' = Await("tool")
                       /\ log' = started
                       /\ UNCHANGED << i, error, errorMessage, exitCode >>
         ELSE /\ log' = Append(started, << "step_complete", step.id >>)
              /\ i' = i + 1
              /\ UNCHANGED << pc, pending, inflight, error, errorMessage, exitCode,
                              toolCalls >>
  /\ UNCHANGED << plugins, pluginRegistry, workflow, initialContext, context,
                  isFirstAiAgentStep, promptFiles, agentCalls, mcpCalls,
                  interp, credVars, scriptVars >>

\* The write is started and not awaited: runAgent is called whether or not
\* the file was written.
PromptWrittenAnyway(ok) ==
  /\ pc = "write"
  /\ promptFiles' =
       IF ok THEN Append(promptFiles,
                         [path |-> pending.file, content |-> pending.prompt])
       ELSE promptFiles
  /\ agentCalls' =
       Append(agentCalls,
              [step |-> i,
               prompt |-> TruncatedPrompt(pending.prompt, pending.file),
               workingDirectory |-> pending.workingDir,
               shouldContinuePreviousSession |->
                 ContinueDirective(isFirstAiAgentStep)])
  /\ pending' = [kind |-> "agent"]
  /\ inflight' = inflight + 1
  /\ pc' = Await("agent")
  /\ UNCHANGED << i, error, errorMessage, exitCode, log >>
  /\ UNCHANGED << plugins, pluginRegistry, workflow, initialContext, context,
                  isFirstAiAgentStep, toolCalls, mcpCalls, interp, credVars, scriptVars >>

\* await fs.writeFile(tempPromptFile, fullPrompt) settles; on success
\* runAgent is called with the truncated prompt.
PromptWritten(ok) ==
  /\ pc = "write"
  /\ IF ok
       THEN /\ promptFiles' =
                 Append(promptFiles,
                        [path |-> pending.file, content |-> pending.prompt])
            /\ agentCalls' =
                 Append(agentCalls,
                        [step |-> i,
                         prompt |-> TruncatedPrompt(pending.prompt,
                                                    pending.file),
                         workingDirectory |-> pending.workingDir,
                         shouldContinuePreviousSession |->
                           ContinueDirective(isFirstAiAgentStep)])
            /\ pending' = [kind |-> "agent"]
            /\ inflight' = inflight + 1
            /\ pc' = Await("agent")
            /\ UNCHANGED << i, error, errorMessage, exitCode, log >>
       ELSE /\ StepError(workflow[i].id, log, WriteError)
            /\ UNCHANGED << promptFiles, agentCalls, inflight >>
  /\ UNCHANGED << plugins, pluginRegistry, workflow, initialContext, context,
                  isFirstAiAgentStep, toolCalls, mcpCalls, interp, credVars, scriptVars >>

\* The handler of the MCP server also records the call in the context.
AgentCallsToolWrites(p, k) ==
  /\ pending.kind = "agent"
  /\ inflight > 0
  /\ Len(mcpCalls) < MaxMcpCalls
  /\ p \in 1..Len(plugins)
  /\ k \in 1..Len(PluginTools(plugins[p]))
  /\ mcpCalls' = Append(mcpCalls, [plugin |-> plugins[p],
                                   tool |-> PluginTools(plugins[p])[k]])
  /\ context' = WriteEntry(context, PluginTools(plugins[p])[k], Str("called"))
  /\ UNCHANGED << pc, plugins, pluginRegistry, workflow, initialContext,
                  isFirstAiAgentStep, i, pending, inflight, error,
                  errorMessage, exitCode, log, promptFiles, agentCalls,
                  toolCalls, interp, credVars, scriptVars >>

\* The agent calls a tool of the MCP server while runAgent is awaited.
AgentCallsTool(p, k) ==
  /\ pending.kind = "agent"
  /\ inflight > 0
  /\ Len(mcpCalls) < MaxMcpCalls
  /\ p \in 1..Len(plugins)
  /\ k \in 1..Len(PluginTools(plugins[p]))
  /\ mcpCalls' = Append(mcpCalls, [plugin |-> plugins[p],
                                   tool |-> PluginTools(plugins[p])[k]])
  /\ UNCHANGED << pc, plugins, pluginRegistry, workflow, initialContext,
                  context, isFirstAiAgentStep, i, pending, inflight, error, errorMessage,
                  exitCode, log, promptFiles, agentCalls, toolCalls, interp, credVars, scriptVars >>

\* The agent's answer is parsed as JSON where it can be, like a tool result.
AgentReturnsParsed(output) ==
  /\ pc = "agent"
  /\ isFirstAiAgentStep' = FALSE
  /\ context' = WriteEntry(context, workflow[i].id, OutputData(output))
  /\ inflight' = inflight - 1
  /\ mcpCalls' = << >>
  /\ StepComplete(workflow[i].id)
  /\ UNCHANGED << plugins, pluginRegistry, workflow, initialContext, error, errorMessage,
                  exitCode, promptFiles, agentCalls, toolCalls, interp, credVars, scriptVars >>

\* runAgent resolves with { output }
AgentReturns(output) ==
  /\ pc = "agent"
  /\ isFirstAiAgentStep' = FALSE
  /\ context' = WriteEntry(context, workflow[i].id, Str(output))
  /\ inflight' = inflight - 1
  /\ mcpCalls' = << >>
  /\ StepComplete(workflow[i].id)
  /\ UNCHANGED << plugins, pluginRegistry, workflow, initialContext, error, errorMessage,
                  exitCode, promptFiles, agentCalls, toolCalls, interp, credVars, scriptVars >>

\* runAgent rejects
AgentThrows ==
  /\ pc = "agent"
  /\ inflight' = inflight - 1
  /\ mcpCalls' = << >>
  /\ StepError(workflow[i].id, log, AgentError)
  /\ UNCHANGED << plugins, pluginRegistry, workflow, initialContext, context,
                  isFirstAiAgentStep, promptFiles, agentCalls, toolCalls,
                  interp, credVars, scriptVars >>

\* The record of a handleToolCall invocation once it has resolved.
Resolved(call, content) ==
  [step |-> call.step, tool |-> call.tool, plugin |-> call.plugin,
   args |-> call.args, result |-> content]

\* A tool step that completes starts the agent's session over.
ToolReturnsFresh(content) ==
  /\ pc = "tool"
  /\ context' = WriteEntry(context, workflow[i].id,
                           OutputData(Join(content, "\n")))
  /\ toolCalls' = [toolCalls EXCEPT ![Len(toolCalls)] =
                     Resolved(toolCalls[Len(toolCalls)], content)]
  /\ inflight' = inflight - 1
  /\ isFirstAiAgentStep' = TRUE
  /\ StepComplete(workflow[i].id)
  /\ UNCHANGED << plugins, pluginRegistry, workflow, initialContext,
                  error, errorMessage, exitCode, promptFiles,
                  agentCalls, mcpCalls, interp, credVars, scriptVars >>

\* plugin.handleToolCall resolves with { content }
ToolReturns(content) ==
  /\ pc = "tool"
  /\ context' = WriteEntry(context, workflow[i].id,
                           OutputData(Join(content, "\n")))
  /\ toolCalls' = [toolCalls EXCEPT ![Len(toolCalls)] =
                     Resolved(toolCalls[Len(toolCalls)], content)]
  /\ inflight' = inflight - 1
  /\ StepComplete(workflow[i].id)
  /\ UNCHANGED << plugins, pluginRegistry, workflow, initialContext,
                  isFirstAiAgentStep, error, errorMessage, exitCode, promptFiles,
                  agentCalls, mcpCalls, interp, credVars, scriptVars >>

\* plugin.handleToolCall rejects
ToolThrows ==
  /\ pc = "tool"
  /\ inflight' = inflight - 1
  /\ StepError(workflow[i].id, log, ToolError)
  /\ UNCHANGED << plugins, pluginRegistry, workflow, initialContext, context,
                  isFirstAiAgentStep, promptFiles, agentCalls, toolCalls,
                  mcpCalls, interp, credVars, scriptVars >>

\* The loop is over and the process stays alive.
FinishHangs ==
  /\ pc = "loop"
  /\ i > Len(workflow)
  /\ UNCHANGED << pc, exitCode >>
  /\ UNCHANGED << plugins, pluginRegistry, workflow, initialContext, context,
                  isFirstAiAgentStep, i, pending, inflight, error, errorMessage, log,
                  promptFiles, agentCalls, toolCalls, mcpCalls, interp, credVars, scriptVars >>

\* The loop is over: runWorkflow and main return, the process ends.
Finish ==
  /\ pc = "loop"
  /\ i > Len(workflow)
  /\ pc' = "exited"
  /\ exitCode' = 0
  /\ UNCHANGED << plugins, pluginRegistry, workflow, initialContext, context,
                  isFirstAiAgentStep, i, pending, inflight, error, errorMessage, log,
                  promptFiles, agentCalls, toolCalls, mcpCalls, interp, credVars, scriptVars >>

Next ==
  \/ \E p \in PluginIds, hasToken \in BOOLEAN : RegisterPlugin(p, hasToken)
  \/ RunWorkflow
  \/ \E now \in Clock : BeginStep(now)
  \/ \E ok \in BOOLEAN : PromptWritten(ok)
  \/ \E p \in 1..MaxPlugins, k \in 1..4 : AgentCallsTool(p, k)
  \/ \E output \in AgentOutputs : AgentReturns(output)
  \/ AgentThrows
  \/ \E content \in ToolResults : ToolReturns(content)
  \/ ToolThrows
  \/ Finish

Spec == Init /\ [][Next]_vars

\* No constraint on the next value of v.
Free(v) == v' = v \/ v' # v

\* The synchronous code of an iteration runs from the top of the loop to
\* its first await, its continue or its exit: the step BeginStep takes,
\* told by where it leaves the loop position.
LoopTurns ==
  /\ pc = "loop"
  /\ i <= Len(workflow)
  /\ pc' \in {"loop", "write", "tool", "exited"}
  /\ i' \in {i, i + 1}
  /\ (pc' # pc \/ i' # i)
  /\ Free(plugins) /\ Free(pluginRegistry) /\ Free(workflow)
  /\ Free(initialContext) /\ Free(context) /\ Free(isFirstAiAgentStep)
  /\ Free(pending) /\ Free(inflight) /\ Free(error) /\ Free(errorMessage)
  /\ Free(exitCode)
  /\ Free(log) /\ Free(promptFiles) /\ Free(agentCalls) /\ Free(toolCalls)
  /\ Free(mcpCalls) /\ Free(interp) /\ Free(credentials) /\ Free(fetchPromise)
  /\ Free(promises) /\ Free(callers)
  /\ Free(diff) /\ Free(queries) /\ Free(received) /\ Free(review)
  /\ Free(response) /\ Free(posts) /\ Free(prComments) /\ Free(agentLogin)
  /\ Free(newComments) /\ Free(hasNewCommits) /\ Free(externalComments)
  /\ Free(flagFile)
  /\ Free(finalResult) /\ Free(agentResult)
  /\ Free(clock) /\ Free(startTime) /\ Free(timeout) /\ Free(lastPoll)
  /\ Free(waitResult)
  /\ Free(requestedPluginNames) /\ Free(config) /\ Free(activePlugins)
  /\ Free(nextPlugin) /\ Free(serverReply)

\* The promises a step awaits settle: fs.writeFile, runAgent, handleToolCall.
WriteSettles == \E ok \in BOOLEAN : PromptWritten(ok)

AgentSettles == AgentThrows \/ (\E output \in AgentOutputs : AgentReturns(output))

ToolSettles == ToolThrows \/ (\E content \in ToolResults : ToolReturns(content))

\* The event loop keeps running the function, and every awaited promise
\* settles.
Fairness ==
  /\ WF_vars(LoopTurns)
  /\ WF_vars(WriteSettles)
  /\ WF_vars(AgentSettles)
  /\ WF_vars(ToolSettles)
  /\ WF_vars(Finish)

SpecLive == Init /\ [][Next]_vars /\ Fairness

(***************************************************************************)
(* Runs of a workflow that fetches a text with a tool and hands it to the  *)
(* agent as its prompt, over text lengths around MAX_CHARS and over        *)
(* working directories                                                     *)
(***************************************************************************)
MaxOver == 2

RECURSIVE Fill(_)
\* n times the character "x"
Fill(n) ==
  IF n <= 0 THEN ""
  ELSE IF n % 2 = 0 THEN LET half == Fill(n \div 2) IN half \o half
  ELSE "x" \o Fill(n - 1)

\* A text of n characters whose last character differs from the others.
PromptText(n) == IF n = 0 THEN "" ELSE Fill(n - 1) \o "$"

PromptLengths ==
  {0, 1} \cup ((MAX_CHARS - MaxOver)..(MAX_CHARS + MaxOver)) \cup {2 * MAX_CHARS}

\* content of the CallToolResult of github_get_pr: one text segment
PromptResults == {<< PromptText(n) >> : n \in PromptLengths}

\* working_dir arguments of workflow files
WorkingDirs == {"", "./workspace", "/srv/repo/", "/tmp/work", "../tmp", "/tmp", "/"}

StepFetch ==
  [id |-> "A", type |-> "tool", tool |-> "github_get_pr",
   args |-> << Prop("pr_number", Num(7)) >>,
   if |-> Undef]

StepPrompt(dir) ==
  [id |-> "P", type |-> "ai_agent", tool |-> "",
   args |-> << Prop("prompt", Str("{{A.output}}")),
               Prop("working_dir", Str(dir)) >>,
   if |-> Undef]

PromptWorkflows == {<< StepFetch, StepPrompt(dir) >> : dir \in WorkingDirs}

RunPromptWorkflow ==
  /\ pc = "main"
  /\ \E steps \in PromptWorkflows, payload \in Payloads :
       RunWorkflowWith(steps, payload)

PromptNext ==
  \/ \E p \in PluginIds, hasToken \in BOOLEAN : RegisterPlugin(p, hasToken)
  \/ RunPromptWorkflow
  \/ \E now \in Clock : BeginStep(now)
  \/ \E ok \in BOOLEAN : PromptWritten(ok)
  \/ \E p \in 1..MaxPlugins, k \in 1..4 : AgentCallsTool(p, k)
  \/ \E output \in AgentOutputs : AgentReturns(output)
  \/ AgentThrows
  \/ \E content \in PromptResults : ToolReturns(content)
  \/ ToolThrows
  \/ Finish

SpecPrompt == Init /\ [][PromptNext]_vars

(***************************************************************************)
(* Runs of workflows that mix tool steps with ai_agent steps, one of them  *)
(* conditional                                                             *)
(***************************************************************************)
StepReviewIf ==
  [id |-> "G", type |-> "ai_agent", tool |-> "",
   args |-> << Prop("prompt", Str("Fix {{B.output}}")) >>,
   if |-> Str("{{ A.output.ok }}")]

SessionCatalog == {StepClone, StepReview, StepReviewIf}

SessionWorkflows == UNION {[1..n -> SessionCatalog] : n \in 1..MaxSteps}

RunSessionWorkflow ==
  /\ pc = "main"
  /\ \E steps \in SessionWorkflows, payload \in Payloads :
       RunWorkflowWith(steps, payload)

SessionNext ==
  \/ \E p \in PluginIds, hasToken \in BOOLEAN : RegisterPlugin(p, hasToken)
  \/ RunSessionWorkflow
  \/ \E now \in Clock : BeginStep(now)
  \/ \E ok \in BOOLEAN : PromptWritten(ok)
  \/ \E p \in 1..MaxPlugins, k \in 1..4 : AgentCallsTool(p, k)
  \/ \E output \in AgentOutputs : AgentReturns(output)
  \/ AgentThrows
  \/ \E content \in ToolResults : ToolReturns(content)
  \/ ToolThrows
  \/ Finish

SpecSession == Init /\ [][SessionNext]_vars

(***************************************************************************)
(* interpolate on its own: one call on a placeholder for a dotted path     *)
(***************************************************************************)
MaxPathLen == 3

PathSegments ==
  {"A", "B", "output", "url", "has_issues", "length", "0", "1"}

Paths == UNION {[1..n -> PathSegments] : n \in 1..MaxPathLen}

\* Contexts runWorkflow builds: no step completed; an ai_agent step A; two
\* tool steps A and B with JSON results.
SampleContexts ==
  { EmptyObject,
    WriteEntry(EmptyObject, "A", Str("hi")),
    WriteEntry(
      WriteEntry(EmptyObject, "A", OutputData("[null, {\"url\": 7}]")),
      "B", OutputData("{\"url\": \"u\", \"has_issues\": false}")) }

InterpInit ==
  /\ pc = "interpolate"
  /\ \E path \in Paths, ctx \in SampleContexts :
       interp = [called |-> FALSE, path |-> path,
                 text |-> Str("{{" \o Join(path, ".") \o "}}"),
                 context |-> ctx]
  /\ RunnerInit
  /\ CredentialManagerInit
  /\ ScriptsInit

\* result = interpolate(text, context)
Interpolate ==
  /\ pc = "interpolate"
  /\ ~interp.called
  /\ interp' = [called |-> TRUE, path |-> interp.path, text |-> interp.text,
                context |-> interp.context,
                result |-> interpolate(interp.text, interp.context)]
  /\ UNCHANGED << pc, plugins, pluginRegistry, workflow, initialContext,
                  context, isFirstAiAgentStep, i, pending, inflight, error, errorMessage,
                  exitCode, log, promptFiles, agentCalls, toolCalls,
                  mcpCalls, credVars, scriptVars >>

InterpNext == Interpolate

SpecInterp == InterpInit /\ [][InterpNext]_vars

(***************************************************************************)
(* interpolate on its own: one call on an arbitrary first argument         *)
(***************************************************************************)
MaxPieces == 3

TextPieces == {"a", " ", "{", "{{", "}}", "x.y", "--"}

RECURSIVE Concat(_)
Concat(parts) == IF parts = << >> THEN "" ELSE Head(parts) \o Concat(Tail(parts))

\* Texts a step may carry in `if` or in an argument.
Texts == {Concat(parts) : parts \in UNION {[1..n -> TextPieces] : n \in 0..MaxPieces}}

\* Values of other types a step may carry there.
NonStrings ==
  { Undef, Null, Num(3), Bool(TRUE), Arr(<< Str("{{A.output}}") >>),
    Obj(<< Prop("depth", Num(1)), Prop("ref", Str("{{A.output}}")) >>) }

TextInit ==
  /\ pc = "interpolate"
  /\ \E text \in {Str(t) : t \in Texts} \cup NonStrings, ctx \in SampleContexts :
       interp = [called |-> FALSE, text |-> text, context |-> ctx]
  /\ RunnerInit
  /\ CredentialManagerInit
  /\ ScriptsInit

\* result = interpolate(text, context)
InterpolateText ==
  /\ pc = "interpolate"
  /\ ~interp.called
  /\ interp' = [called |-> TRUE, text |-> interp.text,
                context |-> interp.context,
                result |-> interpolate(interp.text, interp.context)]
  /\ UNCHANGED << pc, plugins, pluginRegistry, workflow, initialContext,
                  context, isFirstAiAgentStep, i, pending, inflight, error, errorMessage,
                  exitCode, log, promptFiles, agentCalls, toolCalls,
                  mcpCalls, credVars, scriptVars >>

TextNext == InterpolateText

SpecText == TextInit /\ [][TextNext]_vars

(***************************************************************************)
(* credentialManager.fetchCredentials() called by several callers          *)
(***************************************************************************)
\* The in-progress check is left out: only the cache is consulted.
InProgressIgnored(promise) == FALSE

\* Only a promise that has not settled counts as a fetch in progress.
InProgressPending(promise) == promise # 0 /\ promises[promise].state = "pending"

\* if (this.fetchPromise)
InProgress(promise) == promise # 0

\* What the n-th run of _performFetch throws.
FetchError(n) == "Failed to fetch credentials: Service Unavailable"

\* getCredentials(): this.credentials || {}
getCredentials == IF Truthy(credentials) THEN credentials ELSE Obj(EmptyObject)

\* The object the n-th run of _performFetch builds (envVars).
CredentialsOf(n) == Obj(<< Prop("GITHUB_TOKEN", Str("token")),
                           Prop("fetch", Num(n)) >>)

\* A caller calls fetchCredentials; the function runs to its first return
\* or await.
FetchCredentials(c) ==
  /\ pc = "credentials"
  /\ callers[c].at = "idle"
  /\ IF credentials # Null
       THEN /\ callers' = [callers EXCEPT ![c] =
                             [at |-> "resolved", value |-> credentials,
                              via |-> "cache"]]
            /\ UNCHANGED << credentials, fetchPromise, promises >>
       ELSE IF InProgress(fetchPromise)
         THEN /\ callers' = [callers EXCEPT ![c] =
                               [at |-> "returned", promise |-> fetchPromise,
                                late |-> promises[fetchPromise].state # "pending"]]
              /\ UNCHANGED << credentials, fetchPromise, promises >>
         ELSE /\ promises' = Append(promises, [state |-> "pending"])
              /\ fetchPromise' = Len(promises) + 1
              /\ callers' = [callers EXCEPT ![c] =
                               [at |-> "await", promise |-> Len(promises) + 1]]
              /\ UNCHANGED credentials
  /\ UNCHANGED << pc, plugins, pluginRegistry, workflow, initialContext,
                  context, isFirstAiAgentStep, i, pending, inflight, error, errorMessage,
                  exitCode, log, promptFiles, agentCalls, toolCalls,
                  mcpCalls, interp, scriptVars >>

\* _performFetch returns envVars or throws: its promise settles.
PerformFetchSettles(n, ok) ==
  /\ pc = "credentials"
  /\ n \in 1..Len(promises)
  /\ promises[n].state = "pending"
  /\ promises' = [promises EXCEPT ![n] =
                    IF ok THEN [state |-> "fulfilled", value |-> CredentialsOf(n)]
                    ELSE [state |-> "rejected", reason |-> FetchError(n)]]
  /\ UNCHANGED << credentials, fetchPromise, callers >>
  /\ UNCHANGED << pc, plugins, pluginRegistry, workflow, initialContext,
                  context, isFirstAiAgentStep, i, pending, inflight, error, errorMessage,
                  exitCode, log, promptFiles, agentCalls, toolCalls,
                  mcpCalls, interp, scriptVars >>

\* this.credentials = await this.fetchPromise; return this.credentials
\* (the caller that started the fetch goes on), or the promise a caller was
\* handed settles its call.
CallSettles(c) ==
  /\ pc = "credentials"
  /\ callers[c].at \in {"await", "returned"}
  /\ promises[callers[c].promise].state # "pending"
  /\ LET promise == promises[callers[c].promise]
     IN  IF promise.state = "rejected"
           THEN /\ callers' = [callers EXCEPT ![c] =
                                 [at |-> "rejected", reason |-> promise.reason,
                                  via |-> callers[c].at]]
                /\ UNCHANGED credentials
           ELSE /\ callers' = [callers EXCEPT ![c] =
                                 [at |-> "resolved", value |-> promise.value,
                                  via |-> callers[c].at]]
                /\ credentials' = IF callers[c].at = "await"
                                    THEN promise.value ELSE credentials
  /\ UNCHANGED << fetchPromise, promises >>
  /\ UNCHANGED << pc, plugins, pluginRegistry, workflow, initialContext,
                  context, isFirstAiAgentStep, i, pending, inflight, error, errorMessage,
                  exitCode, log, promptFiles, agentCalls, toolCalls,
                  mcpCalls, interp, scriptVars >>

CredentialsInit ==
  /\ pc = "credentials"
  /\ interp = NoInterp
  /\ RunnerInit
  /\ CredentialManagerInit
  /\ ScriptsInit

CredentialsNext ==
  \/ \E c \in Callers : FetchCredentials(c)
  \/ \E n \in 1..MaxCallers, ok \in BOOLEAN : PerformFetchSettles(n, ok)
  \/ \E c \in Callers : CallSettles(c)

SpecCredentials == CredentialsInit /\ [][CredentialsNext]_vars

(***************************************************************************)
(* The review script: main of src/review.ts with postReview of             *)
(* src/github.ts, over diffs of lengths around the truncation limit and    *)
(* over the messages the agent stream can deliver                          *)
(***************************************************************************)
MaxMessages == 2

\* The robot-face character U+1F916 of the bodies posted, in ASCII.
Robot == "<U+1F916>"

\* A diff of n characters whose last character differs from the others.
DiffText(n) == IF n = 0 THEN "" ELSE Fill(n - 1) \o "$"

\* Lengths of the diffs GitHub returns for the pull request.
DiffLengths ==
  {0, 1} \cup ((100000 - MaxOver)..(100000 + MaxOver)) \cup {200000}

\* fileList of main: one line per changed file
FileLists == {"", "- src/auth.ts (+3/-1)"}

TruncatedDiffWhole(d) == d

\* truncatedDiff of main
TruncatedDiff(d) ==
  IF Len(d) > 100000
    THEN Slice(d, 1, 100000) \o "\n... (truncated)"
    ELSE d

\* value[key] of a parsed JSON value
Field(value, key) ==
  IF value.t = "object" /\ HasOwn(value.o, key)
    THEN OwnValue(value.o, key)
    ELSE Undef

Decisions == {"APPROVE", "REQUEST_CHANGES", "COMMENT"}

Severities == {"critical", "warning", "suggestion", "nitpick"}

\* ReviewCommentSchema accepts the value.
ReviewCommentValid(c) ==
  /\ c.t = "object"
  /\ Field(c, "path").t = "string"
  /\ Field(c, "line").t = "number"
  /\ Field(c, "line").n > 0
  /\ Field(c, "body").t = "string"
  /\ \/ Field(c, "severity").t = "undefined"
     \/ /\ Field(c, "severity").t = "string"
        /\ Field(c, "severity").s \in Severities

\* ReviewSchema accepts the value.
ReviewValid(v) ==
  /\ v.t = "object"
  /\ Field(v, "summary").t = "string"
  /\ Field(v, "decision").t = "string"
  /\ Field(v, "decision").s \in Decisions
  /\ Field(v, "comments").t = "array"
  /\ \A k \in 1..Len(Field(v, "comments").a) :
       ReviewCommentValid(Field(v, "comments").a[k])

\* The data zod hands back: the keys of the schema, an absent optional key
\* left out.
ParsedComment(c) ==
  Obj(<< Prop("path", Field(c, "path")), Prop("line", Field(c, "line")),
         Prop("body", Field(c, "body")) >>
      \o (IF Field(c, "severity").t = "undefined" THEN << >>
          ELSE << Prop("severity", Field(c, "severity")) >>))

ParsedReview(v) ==
  Obj(<< Prop("summary", Field(v, "summary")),
         Prop("decision", Field(v, "decision")),
         Prop("comments",
              Arr([k \in 1..Len(Field(v, "comments").a) |->
                     ParsedComment(Field(v, "comments").a[k])])) >>)

\* ReviewSchema.safeParse(value)
ReviewSafeParse(value) ==
  IF ReviewValid(value)
    THEN [success |-> TRUE, data |-> ParsedReview(value)]
    ELSE [success |-> FALSE]

\* severity.toUpperCase()
ToUpperCase(s) ==
  CASE s = "critical" -> "CRITICAL"
    [] s = "warning" -> "WARNING"
    [] s = "suggestion" -> "SUGGESTION"
    [] s = "nitpick" -> "NITPICK"
    [] OTHER -> s

\* body of a line comment of the review posted
LineCommentBody(c) ==
  IF Truthy(Field(c, "severity"))
    THEN "**[" \o ToUpperCase(Field(c, "severity").s) \o "]** "
           \o Field(c, "body").s
    ELSE Field(c, "body").s

\* The request postReview sends.
PostReviewRequest(r) ==
  [to |-> "reviews",
   body |-> "## " \o Robot \o " AI Code Review\n\n" \o Field(r, "summary").s,
   event |-> Field(r, "decision").s,
   comments |-> [k \in 1..Len(Field(r, "comments").a) |->
                   [path |-> Field(Field(r, "comments").a[k], "path").s,
                    line |-> Field(Field(r, "comments").a[k], "line").n,
                    body |-> LineCommentBody(Field(r, "comments").a[k])]]]

LineComment(path, line, body, severity) ==
  Obj(<< Prop("path", Str(path)), Prop("line", line), Prop("body", Str(body)) >>
      \o (IF severity = "" THEN << >> ELSE << Prop("severity", Str(severity)) >>))

ReviewOutput(summary, decision, comments) ==
  Obj(<< Prop("summary", Str(summary)), Prop("decision", Str(decision)),
         Prop("comments", Arr(comments)) >>)

\* structured_output of result messages: reviews the schema accepts, values
\* it rejects, and none
ReviewOutputs ==
  { Undef,
    ReviewOutput("Looks good", "APPROVE", << >>),
    ReviewOutput("Needs validation", "REQUEST_CHANGES",
                 << LineComment("src/auth.ts", Num(42), "Validate the input",
                                "warning") >>),
    Obj(<< Prop("summary", Str("Two notes")), Prop("decision", Str("COMMENT")),
           Prop("comments",
                Arr(<< LineComment("src/auth.ts", Num(7), "Rename this", "") >>)),
           Prop("confidence", Num(1)) >>),
    ReviewOutput("No decision", "LGTM", << >>),
    ReviewOutput("Bad line", "COMMENT",
                 << LineComment("src/auth.ts", Num(0), "Line zero", "nitpick") >>),
    Obj(<< Prop("summary", Str("No comments")),
           Prop("decision", Str("APPROVE")) >>),
    Str("APPROVE") }

ResultSubtypes ==
  {"success", "error_max_structured_output_retries", "error_during_execution"}

\* The messages of the stream: the result message is the last one.
StreamMessages ==
  {[type |-> "system"], [type |-> "assistant"]}
    \cup {[type |-> "result", subtype |-> st, structured_output |-> out] :
            st \in ResultSubtypes, out \in ReviewOutputs}

\* The stream has delivered its result message.
StreamOver(messages) ==
  IF messages = << >> THEN FALSE
  ELSE messages[Len(messages)].type = "result"

\* main of review.ts is started; the runner and the credential manager of
\* the framework take no part.
ReviewInit ==
  /\ pc = "review"
  /\ interp = NoInterp
  /\ RunnerInit
  /\ CredentialManagerInit
  /\ ScriptsInit

frameworkVars ==
  << plugins, pluginRegistry, workflow, initialContext, context,
     isFirstAiAgentStep, i, pending, inflight, error, errorMessage, log,
     promptFiles, agentCalls, toolCalls, mcpCalls, interp, credVars, utilVars >>

respondVars ==
  << response, prComments, agentLogin, newComments, hasNewCommits,
     externalComments, flagFile >>

\* getPRFiles and getPRDiff settle.  When one throws, main rejects and the
\* catch of main exits with 1; otherwise the prompt is built and query is
\* called.
ReviewFetched(ok, n, fileList) ==
  /\ pc = "review"
  /\ IF ok
       THEN /\ diff' = DiffText(n)
            /\ queries' = Append(queries,
                                 [script |-> "review", fileList |-> fileList,
                                  diff |-> TruncatedDiff(DiffText(n))])
            /\ pc' = "review_stream"
            /\ UNCHANGED exitCode
       ELSE /\ pc' = "exited"
            /\ exitCode' = 1
            /\ UNCHANGED << diff, queries >>
  /\ UNCHANGED << received, review, posts, respondVars, frameworkVars >>

\* One iteration of the for await loop: the stream delivers a message.
ReviewMessage(message) ==
  /\ pc = "review_stream"
  /\ Len(received) < MaxMessages
  /\ ~StreamOver(received)
  /\ received' = Append(received, message)
  /\ review' =
       IF message.type = "result" /\ Truthy(message.structured_output)
            /\ ReviewSafeParse(message.structured_output).success
         THEN ReviewSafeParse(message.structured_output).data
         ELSE review
  /\ IF message.type = "result"
          /\ message.subtype = "error_max_structured_output_retries"
       THEN /\ pc' = "exited"
            /\ exitCode' = 1
       ELSE UNCHANGED << pc, exitCode >>
  /\ UNCHANGED << diff, queries, posts, respondVars, frameworkVars >>

\* The stream throws: main rejects and its catch exits with 1.
ReviewStreamThrows ==
  /\ pc = "review_stream"
  /\ pc' = "exited"
  /\ exitCode' = 1
  /\ UNCHANGED << diff, queries, received, review, posts, respondVars,
                  frameworkVars >>

ReviewStreamEndsUnchecked ==
  /\ pc = "review_stream"
  /\ pc' = "review_post"
  /\ posts' = Append(posts,
                     IF review = Null THEN [to |-> "reviews"]
                     ELSE PostReviewRequest(review))
  /\ UNCHANGED exitCode
  /\ UNCHANGED << diff, queries, received, review, respondVars,
                  frameworkVars >>

\* The stream ends: without a review the process exits with 1, with one
\* postReview sends its request.
ReviewStreamEnds ==
  /\ pc = "review_stream"
  /\ IF review = Null
       THEN /\ pc' = "exited"
            /\ exitCode' = 1
            /\ UNCHANGED posts
       ELSE /\ pc' = "review_post"
            /\ posts' = Append(posts, PostReviewRequest(review))
            /\ UNCHANGED exitCode
  /\ UNCHANGED << diff, queries, received, review, respondVars,
                  frameworkVars >>

\* GitHub answers the request of postReview: main logs the review and
\* returns, or postReview throws and the catch around it exits with 1.
ReviewPosted(ok) ==
  /\ pc = "review_post"
  /\ pc' = "exited"
  /\ exitCode' = IF ok THEN 0 ELSE 1
  /\ UNCHANGED << diff, queries, received, review, posts, respondVars,
                  frameworkVars >>

ReviewNext ==
  \/ \E ok \in BOOLEAN, n \in DiffLengths, fileList \in FileLists :
       ReviewFetched(ok, n, fileList)
  \/ \E message \in StreamMessages : ReviewMessage(message)
  \/ ReviewStreamThrows
  \/ ReviewStreamEnds
  \/ \E ok \in BOOLEAN : ReviewPosted(ok)

SpecReview == ReviewInit /\ [][ReviewNext]_vars

(***************************************************************************)
(* The respond script: main of src/respond.ts with postReplies and         *)
(* postComment of src/github.ts, run once per polling round on the         *)
(* comments posted since the round before                                  *)
(***************************************************************************)
MaxComments == 5

MaxReplies == 1

\* s.includes(text)
Includes(s, text) ==
  \E p \in 1..(Len(s) - Len(text) + 1) : SubSeq(s, p, p + Len(text) - 1) = text

\* Logins the token of the agent can belong to: a GitHub App, or a user
\* with a personal access token.
AgentLogins == {"acme-reviewer[bot]", "acme-reviewer"}

\* The others who comment on the pull request.
AuthorLogins == {"octocat", "dependabot[bot]"}

AuthorBodies == {"Why is this needed?"}

\* A comment as GitHub keeps it.  own and polled are not fields of the
\* comment: own tells that this agent posted it, polled that an earlier
\* round was handed it.
PrComment(id, login, body, path, line, own) ==
  [id |-> id, login |-> login, body |-> body, path |-> path, line |-> line,
   own |-> own, polled |-> FALSE]

\* Id of the next comment GitHub creates.
NextId(comments) == 101 + Len(comments)

\* The review a run of the review script posted on the pull request.
PostedReview ==
  PostReviewRequest(ParsedReview(
    ReviewOutput("Needs validation", "REQUEST_CHANGES",
                 << LineComment("src/auth.ts", Num(42), "Validate the input",
                                "warning") >>)))

\* The comments that review left: its body and its line comment.
ReviewComments(login) ==
  << PrComment(101, login, PostedReview.body, "", 0, TRUE),
     PrComment(102, login, PostedReview.comments[1].body,
               PostedReview.comments[1].path, PostedReview.comments[1].line,
               TRUE) >>

\* The comments no round was handed yet, in the order posted.
Unpolled(comments) == SelectSeq(comments, LAMBDA c : ~c.polled)

\* JSON text of the comment, without white space.
CommentJson(c) ==
  "{\"id\":" \o ToString(c.id)
    \o ",\"user\":{\"login\":" \o Quote(c.login) \o "}"
    \o ",\"body\":" \o Quote(c.body)
    \o (IF c.path = "" THEN ""
        ELSE ",\"path\":" \o Quote(c.path) \o ",\"line\":" \o ToString(c.line))
    \o "}"

\* NEW_COMMENTS as the workflow passes it: the JSON text of the comments no
\* round was handed yet.
NewCommentsJson(comments) ==
  "[" \o Join([k \in 1..Len(Unpolled(comments)) |->
                 CommentJson(Unpolled(comments)[k])], ",") \o "]"

\* newComments of main: NEW_COMMENTS parsed, else the file parsed, else [].
ParsedComments(env, file) ==
  IF JsonParse(env).ok THEN JsonParse(env).v.a
  ELSE IF JsonParse(file).ok THEN JsonParse(file).v.a
  ELSE << >>

\* The predicate of the filter that builds externalComments.
IsExternal(c) ==
  /\ ~Includes(Field(Field(c, "user"), "login").s, "[bot]")
  /\ ~Includes(Field(c, "body").s, Robot \o " AI Code Review")

ExternalComments(list) == SelectSeq(list, IsExternal)

\* One comment as the prompt shows it.
CommentLine(c) ==
  "[Comment ID: " \o StringOf(Field(c, "id")) \o "] @"
    \o Field(Field(c, "user"), "login").s \o " "
    \o (IF Truthy(Field(c, "path"))
          THEN "on " \o Field(c, "path").s \o ":" \o StringOf(Field(c, "line"))
          ELSE "")
    \o ":\n" \o Field(c, "body").s

\* commentsContext of main
CommentsContext(list) ==
  Join([k \in 1..Len(list) |-> CommentLine(list[k])], "\n\n")

\* diffContext of main
DiffContext(d) ==
  IF Len(d) > 50000 THEN Slice(d, 1, 50000) \o "\n... (truncated)" ELSE d

RespondDiffLengths == {0, 50000, 50001}

\* The prompt of the query, by the texts interpolated into it.
RespondQuery(shown, commits, diffContext) ==
  [script |-> "respond",
   comments |-> IF Len(shown) > 0
                  THEN "### New Comments\n" \o CommentsContext(shown)
                  ELSE "No new comments.",
   commits |-> commits,
   diff |-> diffContext]

\* CommentReplySchema accepts the value.
ReplyValid(r) ==
  /\ r.t = "object"
  /\ Field(r, "comment_id").t = "number"
  /\ Field(r, "comment_id").n > 0
  /\ Field(r, "body").t = "string"

\* ResponseSchema accepts the value.
ResponseValid(v) ==
  /\ v.t = "object"
  /\ Field(v, "replies").t = "array"
  /\ \A k \in 1..Len(Field(v, "replies").a) : ReplyValid(Field(v, "replies").a[k])
  /\ Field(v, "general_comment").t \in {"undefined", "string"}
  /\ Field(v, "should_re_review").t = "boolean"

ParsedReply(r) ==
  Obj(<< Prop("comment_id", Field(r, "comment_id")),
         Prop("body", Field(r, "body")) >>)

ParsedResponse(v) ==
  Obj(<< Prop("replies",
              Arr([k \in 1..Len(Field(v, "replies").a) |->
                     ParsedReply(Field(v, "replies").a[k])])) >>
      \o (IF Field(v, "general_comment").t = "undefined" THEN << >>
          ELSE << Prop("general_comment", Field(v, "general_comment")) >>)
      \o << Prop("should_re_review", Field(v, "should_re_review")) >>)

\* ResponseSchema.safeParse(value)
ResponseSafeParse(value) ==
  IF ResponseValid(value)
    THEN [success |-> TRUE, data |-> ParsedResponse(value)]
    ELSE [success |-> FALSE]

Reply(commentId, body) ==
  Obj(<< Prop("comment_id", commentId), Prop("body", Str(body)) >>)

\* Replies to the first n comments shown, as the prompt asks for.
RepliesTo(shown, n) ==
  [k \in 1..n |-> Reply(Field(shown[k], "id"), "Good point, will look again")]

ResponseOutput(replies, general, reReview) ==
  Obj(<< Prop("replies", Arr(replies)) >>
      \o (IF general = "" THEN << >>
          ELSE << Prop("general_comment", Str(general)) >>)
      \o << Prop("should_re_review", Bool(reReview)) >>)

\* structured_output of the result message of a round that was shown the
\* comments: responses the schema accepts, values it rejects, and none
ResponseOutputs(shown) ==
  { ResponseOutput(RepliesTo(shown, n), general, reReview) :
      n \in {m \in 0..MaxReplies : m <= Len(shown)},
      general \in {"", "Thanks for the update"},
      reReview \in BOOLEAN }
    \cup { Undef,
           Obj(<< Prop("replies", Arr(<< >>)) >>),
           ResponseOutput(<< Reply(Num(0), "Which comment?") >>, "", FALSE) }

RespondMessages(shown) ==
  {[type |-> "assistant"]}
    \cup {[type |-> "result", subtype |-> st, structured_output |-> out] :
            st \in {"success", "error_max_structured_output_retries"},
            out \in ResponseOutputs(shown)}

\* The polling loop is about to run the respond script for the first time:
\* the review of the agent is on the pull request.
RespondInit ==
  /\ pc = "poll"
  /\ interp = NoInterp
  /\ RunnerInit
  /\ CredentialManagerInit
  /\ agentLogin \in AgentLogins
  /\ prComments = ReviewComments(agentLogin)
  /\ diff = ""
  /\ queries = << >>
  /\ received = << >>
  /\ review = Null
  /\ response = Null
  /\ posts = << >>
  /\ newComments = << >>
  /\ hasNewCommits = FALSE
  /\ externalComments = << >>
  /\ flagFile = ""
  /\ UtilsInit

\* Somebody else comments on a line of the pull request; the round after
\* is handed the comment.
AuthorComments(login, body) ==
  /\ pc = "poll"
  /\ Len(prComments) < MaxComments
  /\ prComments' = Append(prComments,
                          PrComment(NextId(prComments), login, body,
                                    "src/auth.ts", 42, FALSE))
  /\ UNCHANGED << pc, exitCode, diff, queries, received, review, response,
                  posts, agentLogin, newComments, hasNewCommits,
                  externalComments, flagFile, frameworkVars >>

\* A round: a new process runs the script on the comments posted since the
\* round before, up to its first await.  Without activity it returns, the
\* process ends and its variables are gone; with new commits it asks for
\* the diff; otherwise it calls query.
RespondStarts(commits, envOk, fileOk) ==
  /\ pc = "poll"
  /\ Len(prComments) + MaxReplies + 1 <= MaxComments
  /\ \E json \in {NewCommentsJson(prComments)} :
     \E parsed \in {ParsedComments(IF envOk THEN json ELSE "[object Object]",
                                   IF fileOk THEN json ELSE "")} :
     \E shown \in {ExternalComments(parsed)} :
         IF Len(shown) = 0 /\ ~commits
           THEN /\ pc' = "poll"
                /\ exitCode' = 0
                /\ newComments' = << >>
                /\ externalComments' = << >>
                /\ hasNewCommits' = FALSE
                /\ queries' = << >>
           ELSE /\ newComments' = parsed
                /\ externalComments' = shown
                /\ hasNewCommits' = commits
                /\ exitCode' = NoExit
                /\ IF commits
                     THEN /\ pc' = "respond_diff"
                          /\ queries' = << >>
                     ELSE /\ pc' = "respond_stream"
                          /\ queries' = << RespondQuery(shown, commits, "") >>
  /\ prComments' = [k \in 1..Len(prComments) |->
                      [prComments[k] EXCEPT !.polled = TRUE]]
  /\ diff' = ""
  /\ received' = << >>
  /\ response' = Null
  /\ posts' = << >>
  /\ UNCHANGED << review, agentLogin, flagFile, frameworkVars >>

\* getPRDiff settles; a failure leaves diffContext empty.  query is called.
RespondDiffFetched(ok, n) ==
  /\ pc = "respond_diff"
  /\ diff' = IF ok THEN DiffText(n) ELSE diff
  /\ queries' = Append(queries,
                       RespondQuery(externalComments, hasNewCommits,
                                    IF ok THEN DiffContext(DiffText(n)) ELSE ""))
  /\ pc' = "respond_stream"
  /\ UNCHANGED << exitCode, received, review, response, posts, prComments,
                  agentLogin, newComments, hasNewCommits, externalComments,
                  flagFile, frameworkVars >>

\* One iteration of the for await loop: the stream delivers a message.
RespondMessage(message) ==
  /\ pc = "respond_stream"
  /\ Len(received) < MaxMessages
  /\ ~StreamOver(received)
  /\ received' = Append(received, message)
  /\ response' =
       IF message.type = "result" /\ Truthy(message.structured_output)
            /\ ResponseSafeParse(message.structured_output).success
         THEN ResponseSafeParse(message.structured_output).data
         ELSE response
  /\ IF message.type = "result"
          /\ message.subtype = "error_max_structured_output_retries"
       THEN /\ pc' = "exited"
            /\ exitCode' = 1
       ELSE UNCHANGED << pc, exitCode >>
  /\ UNCHANGED << diff, queries, review, posts, prComments, agentLogin,
                  newComments, hasNewCommits, externalComments, flagFile,
                  frameworkVars >>

\* The stream throws: main rejects and its catch exits with 1.
RespondStreamThrows ==
  /\ pc = "respond_stream"
  /\ pc' = "exited"
  /\ exitCode' = 1
  /\ UNCHANGED << diff, queries, received, review, posts, respondVars,
                  frameworkVars >>

\* The comment a reply GitHub accepted becomes: on the line of the comment
\* replied to, by the user of the token, its body as sent.
ReplyComment(comments, reply) ==
  LET target == CHOOSE c \in {comments[k] : k \in 1..Len(comments)} :
                  c.id = Field(reply, "comment_id").n
  IN  PrComment(NextId(comments), agentLogin, Field(reply, "body").s,
                target.path, target.line, TRUE)

RECURSIVE WithReplies(_, _, _)
\* comments after the first n of the replies were accepted
WithReplies(comments, replies, n) ==
  IF n = 0 THEN comments
  ELSE LET before == WithReplies(comments, replies, n - 1)
       IN  Append(before, ReplyComment(before, replies[n]))

\* The requests of postReplies up to the first one GitHub refuses.
ReplyRequests(replies, accepted) ==
  [k \in 1..(IF accepted < Len(replies) THEN accepted + 1 ELSE Len(replies)) |->
     [to |-> "replies", comment_id |-> Field(replies[k], "comment_id").n,
      body |-> Field(replies[k], "body").s]]

\* body of the general comment posted
UpdateBody(general) == Robot \o " **Update**\n\n" \o general

\* The stream ends.  Without a response main returns.  With one the replies
\* are posted one after the other until GitHub refuses one, then the
\* general comment if there is one, and the flag file is written when a
\* re-review is asked for; a failed write rejects main, which exits with 1.
\* The process ends and its variables are gone; posts keeps what it sent.
RespondStreamEnds(accepted, commentOk, writeOk) ==
  /\ pc = "respond_stream"
  /\ IF response = Null
       THEN /\ pc' = "poll"
            /\ exitCode' = 0
            /\ UNCHANGED << posts, prComments, flagFile >>
       ELSE LET replies == Field(response, "replies").a
                general == Field(response, "general_comment")
                reReview == Field(response, "should_re_review").b
                replied == WithReplies(prComments, replies, accepted)
            IN  /\ accepted <= Len(replies)
                /\ posts' = posts \o ReplyRequests(replies, accepted)
                              \o (IF Truthy(general)
                                    THEN << [to |-> "comments",
                                             body |-> UpdateBody(general.s)] >>
                                    ELSE << >>)
                /\ prComments' =
                     IF Truthy(general) /\ commentOk
                       THEN Append(replied,
                                   PrComment(NextId(replied), agentLogin,
                                             UpdateBody(general.s), "", 0, TRUE))
                       ELSE replied
                /\ flagFile' = IF reReview /\ writeOk THEN "true" ELSE flagFile
                /\ IF reReview /\ ~writeOk
                     THEN pc' = "exited" /\ exitCode' = 1
                     ELSE pc' = "poll" /\ exitCode' = 0
  /\ diff' = ""
  /\ queries' = << >>
  /\ received' = << >>
  /\ response' = Null
  /\ newComments' = << >>
  /\ hasNewCommits' = FALSE
  /\ externalComments' = << >>
  /\ UNCHANGED << review, agentLogin, frameworkVars >>

RespondNext ==
  \/ \E login \in AuthorLogins, body \in AuthorBodies : AuthorComments(login, body)
  \/ \E commits \in BOOLEAN, envOk \in BOOLEAN, fileOk \in BOOLEAN :
       RespondStarts(commits, envOk, fileOk)
  \/ \E ok \in BOOLEAN, n \in RespondDiffLengths : RespondDiffFetched(ok, n)
  \/ \E message \in RespondMessages(externalComments) : RespondMessage(message)
  \/ RespondStreamThrows
  \/ \E accepted \in 0..MaxReplies, commentOk \in BOOLEAN, writeOk \in BOOLEAN :
       RespondStreamEnds(accepted, commentOk, writeOk)

SpecRespond == RespondInit /\ [][RespondNext]_vars

(***************************************************************************)
(* Properties                                                              *)
(***************************************************************************)
Declares(p, name) ==
  \E k \in 1..Len(PluginTools(p)) : PluginTools(p)[k] = name

\* Some registered plugin declares the tool.
Provided(name) == \E j \in 1..Len(plugins) : Declares(plugins[j], name)

\* No step has started and nothing was called.
NothingExecuted ==
  /\ log = << >>
  /\ toolCalls = << >>
  /\ agentCalls = << >>
  /\ mcpCalls = << >>
  /\ promptFiles = << >>
  /\ context = EmptyObject

UnresolvedToolStep ==
  \E k \in 1..Len(workflow) :
     /\ workflow[k].type = "tool"
     /\ workflow[k].tool # ""
     /\ ~Provided(workflow[k].tool)

\* C1: when a tool step names a tool that no registered plugin declares,
\* runWorkflow fails in validation: the process ends with status 1 and no
\* step has started, no handleToolCall and no agent invocation was made,
\* also for the steps that precede the offending one.
C1_UnresolvedToolRunsNothing ==
  (pc # "main" /\ UnresolvedToolStep) =>
     /\ pc = "exited"
     /\ exitCode = 1
     /\ error \in {"missing", "duplicate"}
     /\ NothingExecuted

\* A run rejected for a missing tool whose first step could have run.
C1_Witness ==
  /\ pc = "exited"
  /\ error = "missing"
  /\ Len(workflow) >= 2
  /\ workflow[1] = StepClone
  /\ Provided("git_clone")
  /\ workflow[2] = StepCreatePr
  /\ ~Provided("github_create_pr")

StepStarts == SelectSeq(log, LAMBDA e : e[1] = "step_start")

\* C2: when the dispatch of a step throws, the run ends at that step with
\* status 1: the step_error of that step is the last event, no later step is
\* started, the step is dispatched at most once, and the context holds no
\* entry for it.
C2_StepErrorEndsRun ==
  (error = "step") =>
     /\ pc = "exited"
     /\ exitCode = 1
     /\ pending = NoCall
     /\ inflight = 0
     /\ log # << >>
     /\ log[Len(log)] = << "step_error", workflow[i].id >>
     /\ \A n \in 1..(Len(log) - 1) : log[n][1] # "step_error"
     /\ Len(StepStarts) = i
     /\ \A n \in 1..Len(toolCalls) :
          /\ toolCalls[n].step <= i
          /\ (toolCalls[n].step = i => n = Len(toolCalls))
     /\ \A n \in 1..Len(agentCalls) :
          /\ agentCalls[n].step <= i
          /\ (agentCalls[n].step = i => n = Len(agentCalls))
     /\ ((\A k \in 1..(i - 1) : workflow[k].id # workflow[i].id)
           => ~HasOwn(context, workflow[i].id))

\* A plugin's handleToolCall rejected in a step that is not the last one.
C2_Witness ==
  /\ error = "step"
  /\ i < Len(workflow)
  /\ toolCalls # << >>
  /\ toolCalls[Len(toolCalls)].step = i

StepEnds == {"step_skip", "step_complete", "step_error"}

\* C3: steps are visited one at a time in declared order: the events of
\* step k are its step_start followed by its skip, completion or error, and
\* step k + 1 starts only after that; at most one agent invocation or tool
\* call of a step is in flight, and it belongs to the step being visited.
C3_OneStepAtATime ==
  /\ inflight <= 1
  /\ Len(log) <= 2 * Len(workflow)
  /\ \A n \in 1..Len(log) :
       IF n % 2 = 1
         THEN log[n] = << "step_start", workflow[(n + 1) \div 2].id >>
         ELSE /\ log[n][1] \in StepEnds
              /\ log[n][2] = workflow[n \div 2].id
  /\ (inflight = 1 => (Len(log) % 2 = 1 /\ (Len(log) + 1) \div 2 = i))
  /\ \A a, b \in 1..Len(toolCalls) :
       a < b => toolCalls[a].step < toolCalls[b].step
  /\ \A a, b \in 1..Len(agentCalls) :
       a < b => agentCalls[a].step < agentCalls[b].step

\* A call of a later step is in flight after an earlier step completed.
C3_Witness ==
  /\ inflight = 1
  /\ i >= 2
  /\ log[2] = << "step_complete", workflow[1].id >>

\* C4: the continuation directive passed to runAgent is false for the first
\* agent invocation of a run and true for every later one.
C4_ContinuationDirective ==
  \A k \in 1..Len(agentCalls) :
     agentCalls[k].shouldContinuePreviousSession = (k > 1)

\* Three consecutive ai_agent steps were dispatched.
C4_Witness ==
  /\ Len(agentCalls) = 3
  /\ \A k \in 1..3 : agentCalls[k].step = k /\ workflow[k].type = "ai_agent"
  /\ << agentCalls[1].shouldContinuePreviousSession,
        agentCalls[2].shouldContinuePreviousSession,
        agentCalls[3].shouldContinuePreviousSession >> = << FALSE, TRUE, TRUE >>

\* step.if is in the step definition.
IfPresent(step) == step.if # Undef

\* The text the condition of the step at the loop position renders to.
RenderedIf == interpolate(workflow[i].if, context)

\* The iteration at the loop position skips its step: step_start and
\* step_skip are logged, the loop moves on, nothing else changes.
SkipsStep ==
  /\ log' = log \o << << "step_start", workflow[i].id >>,
                      << "step_skip", workflow[i].id >> >>
  /\ i' = i + 1
  /\ pc' = "loop"
  /\ UNCHANGED << context, toolCalls, agentCalls, promptFiles, pending,
                  inflight, isFirstAiAgentStep, error, errorMessage, exitCode >>

\* C5 as stated: a step whose `if` field is present is skipped whenever the
\* field renders to the empty string or to "false".
C5_SkipWhenIfPresent ==
  [][(/\ pc = "loop"
      /\ i <= Len(workflow)
      /\ IfPresent(workflow[i])
      /\ RenderedIf \in {Str(""), Str("false")}) => SkipsStep]_vars

\* C5, amended: a step whose `if` field is a non-empty string is skipped
\* whenever the field renders to the empty string or to "false": it is not
\* dispatched, no context entry is written, the run goes on with the next
\* step.  (An `if` that is the empty string counts as no condition.)
C5_SkipWhenIfNonEmpty ==
  [][(/\ pc = "loop"
      /\ i <= Len(workflow)
      /\ IfPresent(workflow[i])
      /\ workflow[i].if # Str("")
      /\ RenderedIf \in {Str(""), Str("false")}) => SkipsStep]_vars

\* [A (tool), B (ai_agent), C (tool, if "{{B.output.has_issues}}")]: C was
\* skipped after B completed, and the run went on to its end.
C5_Witness ==
  /\ workflow = << StepClone, StepReview, StepCreatePr >>
  /\ Len(log) = 6
  /\ log[4] = << "step_complete", "B" >>
  /\ log[6] = << "step_skip", "C" >>
  /\ HasOwn(context, "B")
  /\ ~HasOwn(context, "C")
  /\ exitCode = 0

UniqueIds ==
  \A a, b \in 1..Len(workflow) : a # b => workflow[a].id # workflow[b].id

StepCompletions == SelectSeq(log, LAMBDA e : e[1] = "step_complete")

\* ids of the steps completed so far, in order of completion
CompletedIds == [n \in 1..Len(StepCompletions) |-> StepCompletions[n][2]]

IsPrefix(a, b) == Len(a) <= Len(b) /\ a = SubSeq(b, 1, Len(a))

\* C6: for a workflow with unique step ids the keys of the context are, in
\* every state, the ids of the steps completed so far in step order, and a
\* step of the program only appends to them (at most one key).
C6_ContextGrowsByCompletedSteps ==
  /\ [](UniqueIds => Keys(context) = CompletedIds)
  /\ [][UniqueIds =>
          /\ IsPrefix(Keys(context), Keys(context'))
          /\ Len(context') <= Len(context) + 1]_vars

\* A finished run of three steps with unique ids: two completed, one skipped.
C6_Witness ==
  /\ UniqueIds
  /\ Len(workflow) = 3
  /\ exitCode = 0
  /\ Keys(context) = << "A", "B" >>
  /\ \E n \in 1..Len(log) : log[n][1] = "step_skip"

\* Two registered plugins declare the same tool name.
HasDuplicateTools ==
  \E a, b \in 1..Len(plugins) :
     a < b /\ \E name \in ToolNames(<< plugins[a] >>) : Declares(plugins[b], name)

C8_DuplicateStopsEveryRun ==
  (workflow # << >> /\ HasDuplicateTools) =>
     /\ pc = "exited"
     /\ error = "duplicate"
     /\ exitCode = 1
     /\ NothingExecuted

\* The workflow of the rejected run references no tool at all.
C8_Witness ==
  /\ HasDuplicateTools
  /\ error = "duplicate"
  /\ workflow = << StepReview >>

\* C9 as stated: the payload main passes as { input: payload } is in the
\* context before the first step, so {{ input.pr }} renders to the
\* payload's value.
C9_PayloadInContext ==
  (pc = "loop" /\ log = << >>) =>
     interpolate(Str("{{ input.pr }}"), context)
       = interpolate(Str("{{ input.pr }}"), initialContext)

RECURSIVE PresentIn(_, _)
\* The path leads to a value of the data: own properties of objects and
\* elements of arrays only.
PresentIn(value, keys) ==
  IF keys = << >> THEN TRUE
  ELSE CASE value.t = "object" ->
              /\ HasOwn(value.o, Head(keys))
              /\ PresentIn(OwnValue(value.o, Head(keys)), Tail(keys))
         [] value.t = "array" ->
              /\ IsIndexKey(Head(keys))
              /\ DecimalValue(Head(keys), 0) < Len(value.a)
              /\ PresentIn(value.a[DecimalValue(Head(keys), 0) + 1], Tail(keys))
         [] OTHER -> FALSE

\* C10 as stated: for a path absent from the context, "{{path}}" renders to
\* the empty string.
C10_AbsentPathRendersEmpty ==
  (interp.called /\ ~PresentIn(Obj(interp.context), interp.path)) =>
     interp.result = Str("")

RECURSIVE ValueAt(_, _)
\* The value of the data the path leads to (the path is present).
ValueAt(value, keys) ==
  IF keys = << >> THEN value
  ELSE IF value.t = "object"
    THEN ValueAt(OwnValue(value.o, Head(keys)), Tail(keys))
    ELSE ValueAt(value.a[DecimalValue(Head(keys), 0) + 1], Tail(keys))

\* A mapping or a sequence.
Structured(value) == value.t \in {"object", "array"}

\* The string form of a scalar of the data.
ScalarText(value) ==
  CASE value.t = "string" -> value.s
    [] value.t = "number" -> ToString(value.n)
    [] value.t = "boolean" -> (IF value.b THEN "true" ELSE "false")
    [] value.t = "null" -> "null"

\* C11: for a dotted path present in the context, "{{path}}" renders to the
\* string form of the value when it is a scalar and to its JSON text
\* indented by two spaces when it is a mapping or a sequence; a numeric
\* segment indexes into a sequence.
C11_PresentPathRendersValue ==
  (interp.called /\ PresentIn(Obj(interp.context), interp.path)) =>
     LET value == ValueAt(Obj(interp.context), interp.path)
     IN  interp.result =
           Str(IF Structured(value) THEN Stringify(value, 0)
               ELSE ScalarText(value))

\* {{A.output.1}} on a context whose A.output is [null, {"url": 7}]: the
\* numeric segment selects the mapping, rendered as indented JSON.
C11_Witness ==
  /\ interp.called
  /\ interp.path = << "A", "output", "1" >>
  /\ PresentIn(Obj(interp.context), interp.path)
  /\ interp.result = Str("{\n  \"url\": 7\n}")

\* Every character of text at positions a..b is in class.
AllBetween(text, a, b, class) == \A j \in a..b : At(text, j) \in class

\* Some part of text has the form {{ path }}: two opening braces, optional
\* white space, one or more letters, digits, underscores or dots, optional
\* white space, two closing braces.
HasPlaceholder(text) ==
  \E p \in 1..Len(text) :
     /\ Slice(text, p, p + 1) = "{{"
     /\ \E a \in (p + 2)..Len(text) :
          /\ AllBetween(text, p + 2, a - 1, SpaceChars)
          /\ \E b \in (a + 1)..(Len(text) + 1) :
               /\ AllBetween(text, a, b - 1, PathChars)
               /\ \E c \in b..Len(text) :
                    /\ AllBetween(text, b, c - 1, SpaceChars)
                    /\ Slice(text, c, c + 1) = "}}"

\* C12: interpolate returns a template without a {{ path }} placeholder
\* unchanged, whatever the context, and returns a first argument that is not
\* a string unchanged.
C12_NoPlaceholderUnchanged ==
  (/\ interp.called
   /\ (interp.text.t = "string" => ~HasPlaceholder(interp.text.s))) =>
     interp.result = interp.text

\* A template with both pairs of braces and no path between them came back
\* as it was, against a context that has entries.
C12_Witness ==
  /\ interp.called
  /\ interp.text = Str("{{--}}")
  /\ interp.context # EmptyObject
  /\ interp.result = Str("{{--}}")

\* The interpolated prompt of the step an agent invocation belongs to (the
\* ids of the workflow are unique, so the entries it reads are still there).
FullPromptOf(call) ==
  OrElse(Lookup(InterpolateArgs(workflow[call.step].args, context),
                "prompt"), Str("")).s

\* C13: with B = 8000, an interpolated prompt of length L > B is submitted
\* as its first B characters followed by the truncation notice that names
\* the full-prompt file; a prompt of length L <= B is submitted unchanged
\* with no notice; in both cases the file holds the full prompt of L
\* characters.
C13_PromptTruncation ==
  \A k \in 1..Len(agentCalls) :
     LET full == FullPromptOf(agentCalls[k])
         sent == agentCalls[k].prompt
         file == promptFiles[k]
         notice == TruncationNote(file.path)
     IN  /\ file.content = full
         /\ (Len(full) <= 8000 => sent = full)
         /\ (Len(full) > 8000 =>
               /\ Len(sent) = 8000 + Len(notice)
               /\ SubSeq(sent, 1, 8000) = SubSeq(full, 1, 8000)
               /\ SubSeq(sent, 8001, Len(sent)) = notice)

\* A prompt of 8001 characters was cut to 8000 and the notice appended,
\* while the file holds all 8001.
C13_Witness ==
  /\ Len(agentCalls) = 1
  /\ Len(promptFiles[1].content) = 8001
  /\ Len(agentCalls[1].prompt) > 8001
  /\ SubSeq(agentCalls[1].prompt, 1, 8000) = Fill(8000)

\* The handleToolCall invocation has resolved.
HasResult(call) == "result" \in DOMAIN call

\* No step visited after step k wrote under the same id.
NotOverwritten(k) ==
  \A later \in (k + 1)..(i - 1) :
     later <= Len(workflow) => workflow[later].id # workflow[k].id

\* C14: after a tool step completes, context[step.id] is { output } alone,
\* where output is the value JSON.parse gives for the text segments of the
\* result joined by line breaks when that text is JSON, and the joined text
\* itself otherwise.
C14_ToolOutputParsedOrRaw ==
  \A n \in 1..Len(toolCalls) :
     (HasResult(toolCalls[n]) /\ NotOverwritten(toolCalls[n].step)) =>
        LET text == Join(toolCalls[n].result, "\n")
            parsed == JsonParse(text)
            entry == Lookup(context, workflow[toolCalls[n].step].id)
        IN  /\ entry.t = "object"
            /\ Keys(entry.o) = << "output" >>
            /\ entry.o[1].v = (IF parsed.ok THEN parsed.v ELSE Str(text))

\* Step A returned a JSON text and step E two segments that are not JSON:
\* A.output is the parsed mapping, E.output the two segments on two lines.
C14_Witness ==
  /\ Len(toolCalls) = 2
  /\ HasResult(toolCalls[2])
  /\ Lookup(context, "A") =
       Obj(<< Prop("output",
                   Obj(<< Prop("ok", Bool(TRUE)),
                          Prop("url", Str("https://example.com/r.git")) >>)) >>)
  /\ Lookup(context, "E") =
       Obj(<< Prop("output", Str("Cloned\ninto ./w")) >>)

StepErrors == SelectSeq(log, LAMBDA e : e[1] = "step_error")

\* Every step of the workflow was visited and none failed.
AllStepsVisited ==
  /\ workflow # << >>
  /\ i = Len(workflow) + 1
  /\ Len(StepStarts) = Len(workflow)
  /\ StepErrors = << >>

\* C15: the process ends with status 0 exactly when every step of the
\* workflow was visited without a failure; an error of a plugin's init, an
\* error of validation and an error of a step each end the process with a
\* non-zero status, after the error was logged.
C15_ExitStatus ==
  /\ (pc = "exited") = (exitCode # NoExit)
  /\ (pc = "exited") =>
        /\ (exitCode = 0) = (error = "none" /\ AllStepsVisited)
        /\ (exitCode # 0) = (error \in {"init", "duplicate", "missing", "step"})
        /\ (error = "step") =
             (log # << >> /\ log[Len(log)][1] = "step_error")
        /\ (error \in {"init", "duplicate", "missing"}) => log = << >>
  /\ (error # "none") => (pc = "exited" /\ exitCode # 0)

\* A run of three steps ended with status 0: each step was started and
\* then completed or skipped.
C15_Witness ==
  /\ pc = "exited"
  /\ exitCode = 0
  /\ Len(workflow) = 3
  /\ Len(log) = 6
  /\ \E n \in 1..Len(log) : log[n][1] = "step_skip"
  /\ \E n \in 1..Len(log) : log[n][1] = "step_complete"

\* The steps started so far are the first steps of the workflow, each once.
NoStepTwice ==
  /\ Len(StepStarts) <= Len(workflow)
  /\ \A n \in 1..Len(StepStarts) : StepStarts[n][2] = workflow[n].id

\* The run is over: every step was visited, or exactly one step failed.
Terminal ==
  /\ pc = "exited"
  /\ \/ (error = "none" /\ AllStepsVisited)
     \/ (error = "step" /\ Len(StepErrors) = 1)

\* C16: when every agent invocation and every tool call (and the write of
\* the prompt file) returns or throws, a run of the loop over a workflow
\* reaches a terminal state: all steps visited, or exactly one step failed;
\* no step is visited twice.
C16_RunTerminates ==
  /\ []NoStepTwice
  /\ (pc = "loop") ~> Terminal

\* A run was aborted by its third step after two steps completed.
C16_Witness ==
  /\ Terminal
  /\ error = "step"
  /\ i = 3
  /\ Len(StepCompletions) = 2

\* C17: over all interleavings of fetchCredentials calls on the singleton,
\* calls made while the fetch is in flight included, _performFetch is
\* started at most once and all callers that resolve receive the same
\* credentials object.
C17_SingleFetch ==
  /\ Len(promises) <= 1
  /\ \A a, b \in Callers :
       (callers[a].at = "resolved" /\ callers[b].at = "resolved") =>
          callers[a].value = callers[b].value
  /\ \A a \in Callers :
       callers[a].at = "resolved" =>
          (promises[1].state = "fulfilled" /\ callers[a].value = promises[1].value)

\* Three calls resolved: the one that started the fetch, one made while the
\* fetch was in flight and one answered from the cache.
C17_Witness ==
  /\ \A c \in 1..3 : callers[c].at = "resolved"
  /\ << callers[1].via, callers[2].via, callers[3].via >>
       = << "await", "returned", "cache" >>
  /\ Len(promises) = 1
  /\ credentials = callers[3].value

\* C18: when a plugin's init rejects (the GitHub plugin without
\* GITHUB_TOKEN), registerPlugin rejects and leaves the registry as it was:
\* the plugin is not added and no tool of it becomes available; main then
\* ends the process with status 1, the workflow is never loaded and no step
\* runs.
C18_InitFailureRegistersNothing ==
  /\ [][(error' = "init" /\ error # "init") =>
          /\ plugins' = plugins
          /\ pluginRegistry' = pluginRegistry
          /\ ToolNames(plugins') = ToolNames(plugins)
          /\ pc' = "exited"
          /\ exitCode' = 1]_vars
  /\ []((error = "init") =>
          /\ pc = "exited"
          /\ workflow = << >>
          /\ NothingExecuted
          /\ (\A j \in 1..Len(plugins) : plugins[j] # "github") =>
                (/\ "github" \notin DOMAIN pluginRegistry
                    \/ pluginRegistry["github"] # "github"
                 /\ "github_get_pr" \notin ToolNames(plugins)))

\* The entry point's only registration failed: the registry is empty and
\* the process is over.
C18_Witness ==
  /\ error = "init"
  /\ plugins = << >>
  /\ DOMAIN pluginRegistry = {}
  /\ pc = "exited"
  /\ exitCode = 1

\* What the arguments of a step must be when they are built against ctx:
\* the same keys in the same order, a string value interpolated, any other
\* value as it stands in the step.
ArgsBuiltFrom(args, step, ctx) ==
  /\ Len(args) = Len(step.args)
  /\ \A j \in 1..Len(step.args) :
       /\ args[j].k = step.args[j].k
       /\ args[j].v = (IF step.args[j].v.t = "string"
                         THEN interpolate(step.args[j].v, ctx)
                         ELSE step.args[j].v)

\* C19: for tool steps and for ai_agent steps, each top-level string value
\* of step.args is replaced by its interpolation against the current
\* context and each value of another type (number, boolean, nested mapping
\* or sequence) is handed on unmodified; a run never changes the step
\* definitions of the workflow.
C19_ArgsInterpolatedTopLevel ==
  /\ []((pc = "tool") =>
          ArgsBuiltFrom(toolCalls[Len(toolCalls)].args, workflow[i], context))
  /\ []((pc = "write") =>
          \A j \in 1..Len(workflow[i].args) :
             workflow[i].args[j].k = "prompt" =>
                Str(pending.prompt) = interpolate(workflow[i].args[j].v, context))
  /\ [][(pc # "main") => workflow' = workflow]_vars

\* Step E is being dispatched after step A returned its JSON result: the
\* string argument was rendered, the number and the nested mapping (which
\* holds a placeholder) were handed on as they are.
C19_Witness ==
  /\ pc = "tool"
  /\ workflow[i] = StepIfOk
  /\ toolCalls[Len(toolCalls)].args =
       << Prop("repo_url", Str("https://example.com/r.git")),
          Prop("depth", Num(1)),
          Prop("options", Obj(<< Prop("ref", Str("{{A.output.url}}")) >>)) >>

\* The file lies in the directory or in one of its subdirectories.
Inside(file, dir) ==
  \/ dir = "/"
  \/ Slice(file, 1, Len(dir) + 1) = dir \o "/"

\* C20 as stated: the file the full prompt of an ai_agent step is written
\* to lies outside the working directory handed to the agent and outside
\* its subdirectories, whatever the step and its working_dir argument.
C20_PromptFileOutsideWorkingDir ==
  \A k \in 1..Len(agentCalls) :
     ~Inside(promptFiles[k].path, agentCalls[k].workingDirectory)

(***************************************************************************)
(* C21                                                                     *)
(***************************************************************************)
\* The text occurs in the message.
Mentions(message, text) ==
  \E p \in 1..(Len(message) - Len(text) + 1) :
     SubSeq(message, p, p + Len(text) - 1) = text

\* The tools of tool steps that no registered plugin declares.
UnprovidedTools ==
  {workflow[k].tool : k \in {n \in 1..Len(workflow) :
                                /\ workflow[n].type = "tool"
                                /\ workflow[n].tool # ""
                                /\ ~Provided(workflow[n].tool)}}

\* The tools the registered plugins declare.
DeclaredTools ==
  UNION {{PluginTools(plugins[j])[k] : k \in 1..Len(PluginTools(plugins[j]))} :
           j \in 1..Len(plugins)}

\* C21: when validation fails for missing tools, the message of the error
\* names every tool of a tool step that no plugin provides, whatever its
\* position in the workflow, and every available tool name; the error is
\* the only one of the run and no step has started.
C21_MissingToolsAllNamed ==
  (error = "missing") =>
     /\ \A name \in UnprovidedTools : Mentions(errorMessage, name)
     /\ \A name \in DeclaredTools : Mentions(errorMessage, name)
     /\ UnprovidedTools # {}
     /\ pc = "exited"
     /\ log = << >>

\* Two different tools are missing, the second one after a step of another
\* kind, and the message names both.
C21_Witness ==
  /\ error = "missing"
  /\ plugins = << >>
  /\ workflow = << StepClone, StepReview, StepCreatePr >>
  /\ Mentions(errorMessage, "git_clone, github_create_pr")

\* One tool is missing while a plugin is registered: its tools are listed.
C21_WitnessAvailable ==
  /\ error = "missing"
  /\ plugins = << "git" >>
  /\ Mentions(errorMessage, "github_create_pr\nAvailable tools: git_clone\n")

(***************************************************************************)
(* C23                                                                     *)
(***************************************************************************)
\* Positions of the registered plugins that declare the tool.
Owners(name) == {j \in 1..Len(plugins) : Declares(plugins[j], name)}

\* C23: once validateTools has returned, the lookup of a tool step's plugin
\* at dispatch never fails: no step ends with "Plugin for tool ... not
\* found", and every handleToolCall is made on the one registered plugin
\* that declares the tool.
C23_DispatchLookupSucceeds ==
  /\ \A k \in 1..Len(workflow) :
        errorMessage # PluginNotFound(workflow[k].tool)
  /\ \A n \in 1..Len(toolCalls) :
        /\ Cardinality(Owners(toolCalls[n].tool)) = 1
        /\ \A j \in Owners(toolCalls[n].tool) :
              toolCalls[n].plugin = plugins[j]

\* A tool step is being dispatched to the second of two registered plugins.
C23_Witness ==
  /\ pc = "tool"
  /\ Len(plugins) = 2
  /\ Owners(workflow[i].tool) = {2}
  /\ toolCalls[Len(toolCalls)].plugin = plugins[2]

(***************************************************************************)
(* C24                                                                     *)
(***************************************************************************)
\* C24: the session flag changes only when the runAgent call of an ai_agent
\* step has returned, and then from true to false: the dispatch of a tool
\* step, a skipped step (of either type) and a failing step leave it as it
\* is, so once false it stays false for the rest of the run.
C24_SessionFlagFrame ==
  [][(isFirstAiAgentStep' # isFirstAiAgentStep) =>
        /\ pc = "agent"
        /\ workflow[i].type = "ai_agent"
        /\ agentCalls # << >>
        /\ agentCalls[Len(agentCalls)].step = i
        /\ isFirstAiAgentStep
        /\ ~isFirstAiAgentStep']_vars

\* After the agent step B and the tool step A, whose result says ok: false,
\* the conditional ai_agent step G was skipped: the flag is still false.
C24_Witness ==
  /\ workflow = << StepReview, StepClone, StepReviewIf >>
  /\ i = 4
  /\ log[4] = << "step_complete", "A" >>
  /\ log[6] = << "step_skip", "G" >>
  /\ ~isFirstAiAgentStep

(***************************************************************************)
(* C25                                                                     *)
(***************************************************************************)
\* Step j has completed: its step_complete event is in the log.
Completed(j) ==
  \E n \in 1..Len(log) : log[n] = << "step_complete", workflow[j].id >>

\* The values step j may have produced: what JSON.parse or its fallback
\* gives for the result of its handleToolCall, or the agent's output.
OutputsOf(j) ==
  IF workflow[j].type = "tool"
    THEN {OutputData(Join(toolCalls[n].result, "\n")) :
            n \in {m \in 1..Len(toolCalls) :
                     HasResult(toolCalls[m]) /\ toolCalls[m].step = j}}
    ELSE {Str(output) : output \in AgentOutputs}

\* The text a value is rendered to.
Rendered(value) ==
  Str(IF Structured(value) THEN Stringify(value, 0) ELSE ScalarText(value))

McpCallMade == Len(mcpCalls') > Len(mcpCalls)

\* The loop has resumed after the await of the step at the loop position.
LoopResumes == pc \in {"agent", "tool"} /\ pc' = "loop" /\ i' = i + 1

\* C26: a tool call the agent makes through the MCP server while an
\* ai_agent step is awaited leaves the context and the session flag as they
\* are; the two change only when the loop resumes after the await of a
\* step, so the keys of the context are the ids of the completed steps
\* whatever calls the agent has made.
C26_McpCallsLeaveContext ==
  /\ [][McpCallMade => UNCHANGED << context, isFirstAiAgentStep >>]_vars
  /\ [][(context' # context \/ isFirstAiAgentStep' # isFirstAiAgentStep)
           => (LoopResumes /\ ~McpCallMade)]_vars
  /\ []((UniqueIds /\ mcpCalls # << >>) => Keys(context) = CompletedIds)

\* The agent step B is awaited after step A has written its entry, and the
\* agent has called a tool through the MCP server.
C26_Witness ==
  /\ pc = "agent"
  /\ workflow[i] = StepReview
  /\ Keys(context) = << "A" >>
  /\ Len(mcpCalls) = MaxMcpCalls
  /\ isFirstAiAgentStep

(***************************************************************************)
(* C27                                                                     *)
(***************************************************************************)
\* C27: every runAgent invocation was preceded by a successful write of
\* the step's full interpolated prompt to the step's prompt file: the k-th
\* file written belongs to the k-th invocation.  When the write of a step
\* fails, runAgent is not called for it: step_error is logged for the step
\* and the process ends with status 1.
C27_PromptWrittenBeforeAgent ==
  /\ [](/\ Len(promptFiles) = Len(agentCalls)
        /\ pc = "agent" =>
             /\ agentCalls[Len(agentCalls)].step = i
             /\ promptFiles[Len(promptFiles)].content
                  = FullPromptOf(agentCalls[Len(agentCalls)])
             /\ \E now \in Clock :
                   promptFiles[Len(promptFiles)].path
                     = TempPromptFile(workflow[i].id, now))
  /\ [][(pc = "write" /\ promptFiles' = promptFiles /\ pc' # pc) =>
           /\ agentCalls' = agentCalls
           /\ pc' = "exited"
           /\ exitCode' = 1
           /\ error' = "step"
           /\ log' = Append(log, << "step_error", workflow[i].id >>)]_vars
  /\ [][(agentCalls' # agentCalls) =>
           /\ pc = "write"
           /\ Len(promptFiles') = Len(promptFiles) + 1
           /\ Len(agentCalls') = Len(agentCalls) + 1]_vars

\* The prompt of the first agent step was written and the agent ran; the
\* write for the second one failed and the agent was not called again.
C27_Witness ==
  /\ workflow = << StepClone, StepReview, StepReview >>
  /\ i = 3
  /\ pc = "exited"
  /\ errorMessage = WriteError
  /\ Len(agentCalls) = 1
  /\ Len(promptFiles) = 1
  /\ promptFiles[1].content = "Review PR  in https://example.com/r.git"

(***************************************************************************)
(* C28                                                                     *)
(***************************************************************************)
\* The number of step events logged when the run stands where it stands.
EventsDue ==
  CASE pc = "loop" -> 2 * (i - 1)
    [] pc \in {"write", "agent", "tool"} -> 2 * i - 1
    [] pc = "exited" /\ error = "step" -> 2 * i
    [] pc = "exited" /\ error = "none" -> 2 * Len(workflow)
    [] OTHER -> 0

\* The message of the error that ends the step at the loop position, told
\* by where the step stands when it fails.
MessageDue ==
  CASE pc = "write" -> WriteError
    [] pc = "agent" -> AgentError
    [] pc = "tool" -> ToolError
    [] OTHER -> ToolNameMissing

\* C28: the step events are logged in step order, for each step reached its
\* step_start and then one of step_skip, step_complete and step_error, the
\* next step's step_start coming only after that; events are only added;
\* and when a step fails the process ends in the step that logs step_error
\* for that step with the message of the failure, the last event of the log.
C28_StepEventsInOrder ==
  /\ [](/\ Len(log) = EventsDue
        /\ \A k \in 1..Len(workflow) :
              /\ 2 * k - 1 <= Len(log) =>
                   log[2 * k - 1] = << "step_start", workflow[k].id >>
              /\ 2 * k <= Len(log) =>
                   /\ log[2 * k] \in {<< end, workflow[k].id >> : end \in StepEnds}
                   /\ (log[2 * k][1] = "step_error" => 2 * k = Len(log)))
  /\ [][IsPrefix(log, log') /\ Len(log') <= Len(log) + 2]_vars
  /\ [][(pc # "exited" /\ pc' = "exited" /\ error' = "step") =>
           /\ log'[Len(log')] = << "step_error", workflow[i].id >>
           /\ errorMessage' = MessageDue
           /\ exitCode' = 1]_vars

\* A run of three steps: the first skipped, the second completed, the third
\* failed for its missing tool name and ended the process.
C28_Witness ==
  /\ workflow = << StepIfOk, StepClone, StepNoTool >>
  /\ pc = "exited"
  /\ log = << << "step_start", "E" >>, << "step_skip", "E" >>,
              << "step_start", "A" >>, << "step_complete", "A" >>,
              << "step_start", "F" >>, << "step_error", "F" >> >>
  /\ errorMessage = "Tool name missing"

(***************************************************************************)
(* C22: the diff the review prompt embeds                                  *)
(***************************************************************************)
ReviewQueries == {k \in 1..Len(queries) : queries[k].script = "review"}

LastMessage == received[Len(received)]

\* The stream ended with a structured output ReviewSchema accepts.
EndedWithValidReview ==
  /\ StreamOver(received)
  /\ Truthy(LastMessage.structured_output)
  /\ ReviewValid(LastMessage.structured_output)

RetriesExhausted ==
  /\ StreamOver(received)
  /\ LastMessage.subtype = "error_max_structured_output_retries"

\* C30: a run of the review script posts at most one review, and only once
\* the agent stream has ended with a structured output that validates
\* against ReviewSchema, the review posted being that output; a run in
\* which no valid review was produced, or whose structured-output retries
\* were exhausted, exits with a non-zero status and posts nothing.
C30_ReviewPostedOnce ==
  /\ Len(posts) <= 1
  /\ posts # << >> =>
       /\ pc \in {"review_post", "exited"}
       /\ EndedWithValidReview
       /\ ~RetriesExhausted
       /\ posts[1] = PostReviewRequest(ParsedReview(LastMessage.structured_output))
  /\ (pc = "exited" /\ (~EndedWithValidReview \/ RetriesExhausted)) =>
       /\ exitCode = 1
       /\ posts = << >>
  /\ exitCode = 0 => Len(posts) = 1

\* A run that received a valid review with a line comment, posted it and
\* ended with status 0.
C30_Witness ==
  /\ pc = "exited"
  /\ exitCode = 0
  /\ Len(posts) = 1
  /\ posts[1].event = "REQUEST_CHANGES"
  /\ posts[1].comments[1].body = "**[WARNING]** Validate the input"

\* A run whose retries were exhausted with a valid output in the last
\* message: it exited with 1 and posted nothing.
C30_WitnessExhausted ==
  /\ pc = "exited"
  /\ RetriesExhausted
  /\ EndedWithValidReview
  /\ exitCode = 1
  /\ posts = << >>

(***************************************************************************)
(* C29: the comments a round of the respond script is shown                *)
(***************************************************************************)
\* Ids of the comments the agent itself posted: its review, its replies
\* and its update comments.
OwnIds == {prComments[k].id : k \in {n \in 1..Len(prComments) : prComments[n].own}}

\* C29: no comment the agent itself posted is among the comments a round
\* of the respond script shows to the model, and no reply it sends answers
\* one of its own comments.
C29_OwnCommentsExcluded ==
  /\ \A k \in 1..Len(externalComments) :
       Field(externalComments[k], "id").n \notin OwnIds
  /\ \A k \in 1..Len(posts) :
       posts[k].to = "replies" => posts[k].comment_id \notin OwnIds

(***************************************************************************)
(* Runs of workflows whose last step depends on the outputs of the steps   *)
(* before it: a tool step that fetches a pull request, an ai_agent step,   *)
(* and a tool step whose condition and argument name those outputs         *)
(***************************************************************************)
\* A CallToolResult: the text segments of its content and its isError flag.
ToolResult(content, isError) == [content |-> content, isError |-> isError]

\* What github_get_pr and github_comment_pr may resolve with.
ConditionResults ==
  { ToolResult(<< "{\"merged\": null, \"comments\": 0, \"draft\": false, \"title\": \"\"}" >>,
               FALSE),
    ToolResult(<< "see {{B.output}}" >>, FALSE),
    ToolResult(<< "Error: Not Found" >>, TRUE) }

\* result.output of the agent: prose, JSON text, a placeholder.
ConditionAnswers ==
  {"Found 1 issue", "{\"has_issues\": true}", "{{ A.output }}"}

\* The `if` fields of the last step.
Conditions ==
  { Undef,
    Str("{{ B.output.has_issues }}"),
    Str("{{ A.output.merged }}"),
    Str("{{ A.output.comments }}"),
    Str("{{ A.output.draft }}"),
    Str("{{ A.output.title }}"),
    Str("{{ A.output.labels }}") }

StepGate(condition) ==
  [id |-> "K", type |-> "tool", tool |-> "github_comment_pr",
   args |-> << Prop("body", Str("{{A.output}} / {{B.output}}")) >>,
   if |-> condition]

ConditionWorkflows ==
  {<< StepFetch, StepReview, StepGate(c) >> : c \in Conditions}

RunConditionWorkflow ==
  /\ pc = "main"
  /\ \E steps \in ConditionWorkflows, payload \in Payloads :
       RunWorkflowWith(steps, payload)

\* A result with isError set is thrown like a rejection.
ToolReturnsResultChecked(result) ==
  /\ pc = "tool"
  /\ toolCalls' = [toolCalls EXCEPT ![Len(toolCalls)] =
                     Resolved(@, result.content) @@ [isError |-> result.isError]]
  /\ inflight' = inflight - 1
  /\ IF result.isError
       THEN /\ StepError(workflow[i].id, log, Join(result.content, "\n"))
            /\ UNCHANGED context
       ELSE /\ context' = WriteEntry(context, workflow[i].id,
                                     OutputData(Join(result.content, "\n")))
            /\ StepComplete(workflow[i].id)
            /\ UNCHANGED << error, errorMessage, exitCode >>
  /\ UNCHANGED << plugins, pluginRegistry, workflow, initialContext,
                  isFirstAiAgentStep, promptFiles,
                  agentCalls, mcpCalls, interp, credVars, scriptVars >>

\* plugin.handleToolCall resolves with a CallToolResult: only its content is
\* read (toolResult.content.map(c => c.text).join("\n")), isError is not.
ToolReturnsResult(result) ==
  /\ pc = "tool"
  /\ context' = WriteEntry(context, workflow[i].id,
                           OutputData(Join(result.content, "\n")))
  /\ toolCalls' = [toolCalls EXCEPT ![Len(toolCalls)] =
                     Resolved(@, result.content) @@ [isError |-> result.isError]]
  /\ inflight' = inflight - 1
  /\ StepComplete(workflow[i].id)
  /\ UNCHANGED << plugins, pluginRegistry, workflow, initialContext,
                  isFirstAiAgentStep, error, errorMessage, exitCode, promptFiles,
                  agentCalls, mcpCalls, interp, credVars, scriptVars >>

ConditionNext ==
  \/ \E p \in PluginIds, hasToken \in BOOLEAN : RegisterPlugin(p, hasToken)
  \/ RunConditionWorkflow
  \/ \E now \in Clock : BeginStep(now)
  \/ \E ok \in BOOLEAN : PromptWritten(ok)
  \/ \E p \in 1..MaxPlugins, k \in 1..4 : AgentCallsTool(p, k)
  \/ \E output \in ConditionAnswers : AgentReturns(output)
  \/ AgentThrows
  \/ \E result \in ConditionResults : ToolReturnsResult(result)
  \/ ToolThrows
  \/ Finish

SpecCondition == Init /\ [][ConditionNext]_vars

\* The steps of type ai_agent that have an entry in the context.
AgentEntries ==
  {j \in 1..Len(workflow) :
     workflow[j].type = "ai_agent" /\ HasOwn(context, workflow[j].id)}

\* The iteration at the loop position is taken.
StepBegins == pc = "loop" /\ i <= Len(workflow) /\ log' # log

OutputField(id, field) == Walk(Obj(context), << id, "output", field >>)

\* The iteration at the loop position ends in a step_skip.
Skipped == log'[Len(log')] = << "step_skip", workflow[i].id >>

\* The iteration at the loop position calls the tool of its step.
CallsTool ==
  /\ Len(toolCalls') = Len(toolCalls) + 1
  /\ toolCalls'[Len(toolCalls')].step = i
  /\ log' = Append(log, << "step_start", workflow[i].id >>)
  /\ pc' = "tool"

\* C32: the condition check compares text only: a placeholder that resolves
\* to null is rendered "null" and one that resolves to the number 0 is
\* rendered "0", and the step carrying either condition is executed; a step
\* with an `if` is skipped only when the rendered text is empty or "false".
C32_ConditionComparesText ==
  /\ [][(/\ StepBegins
         /\ workflow[i].if = Str("{{ A.output.merged }}")
         /\ OutputField("A", "merged") = Null)
          => (RenderedIf = Str("null") /\ ~Skipped /\ CallsTool)]_vars
  /\ [][(/\ StepBegins
         /\ workflow[i].if = Str("{{ A.output.comments }}")
         /\ OutputField("A", "comments") = Num(0))
          => (RenderedIf = Str("0") /\ ~Skipped /\ CallsTool)]_vars
  /\ [][(StepBegins /\ IfPresent(workflow[i]) /\ Skipped)
          => RenderedIf \in {Str(""), Str("false")}]_vars

\* The pull request fetched by step A has "merged": null, and the step
\* conditioned on A.output.merged called its tool.
C32_Witness ==
  /\ Len(workflow) = 3
  /\ workflow[3].if = Str("{{ A.output.merged }}")
  /\ OutputField("A", "merged") = Null
  /\ OutputField("A", "comments") = Num(0)
  /\ toolCalls # << >>
  /\ toolCalls[Len(toolCalls)].step = 3

\* The steps of type "tool" that have no tool name.
NamelessSteps ==
  {j \in 1..Len(workflow) : workflow[j].type = "tool" /\ workflow[j].tool = ""}

\* Every step before position n was started and ended without an error.
EarlierStepsDone(n) ==
  /\ Len(log) >= 2 * (n - 1)
  /\ \A k \in 1..(n - 1) :
       /\ log[2 * k - 1] = << "step_start", workflow[k].id >>
       /\ log[2 * k] \in {<< "step_skip", workflow[k].id >>,
                          << "step_complete", workflow[k].id >>}

\* C33: a step of type "tool" without a tool name is not rejected by
\* validation; it fails only when the loop reaches it, with the step error
\* 'Tool name missing' that ends the run with status 1, after all earlier
\* steps have been executed.
C33_NamelessToolFailsWhenReached ==
  /\ [](error = "missing" => UnprovidedTools # {})
  /\ [](errorMessage = ToolNameMissing =>
          /\ error = "step"
          /\ pc = "exited"
          /\ exitCode = 1
          /\ i \in NamelessSteps
          /\ EarlierStepsDone(i)
          /\ Len(log) = 2 * i
          /\ log[Len(log)] = << "step_error", workflow[i].id >>)
  /\ [][(StepBegins /\ i \in NamelessSteps /\ ~Skipped)
          => /\ errorMessage' = ToolNameMissing
             /\ pc' = "exited"
             /\ exitCode' = 1
             /\ UNCHANGED << toolCalls, context >>]_vars

\* The nameless step was the third one: the tool of the first step was
\* called and its output stored before the run ended at the third.
C33_Witness ==
  /\ errorMessage = ToolNameMissing
  /\ i = 3
  /\ workflow[3] = StepNoTool
  /\ toolCalls # << >>
  /\ toolCalls[1].step = 1
  /\ HasOwn(context, workflow[1].id)
  /\ log[2] = << "step_complete", workflow[1].id >>

\* The tool call in flight resolves with a result whose isError is set.
ResolvesWithError ==
  /\ pc = "tool"
  /\ Len(toolCalls') = Len(toolCalls)
  /\ HasResult(toolCalls'[Len(toolCalls')])
  /\ toolCalls'[Len(toolCalls')].isError

\* C34: a tool step whose plugin resolves with a result that has isError
\* set is treated as a success: the text of the result is stored as the
\* output of the step, the step is logged complete and the run goes on with
\* the next step.
C34_ErrorResultIsSuccess ==
  [][ResolvesWithError =>
       /\ context' = WriteEntry(context, workflow[i].id,
                                Str(Join(toolCalls'[Len(toolCalls')].result, "\n")))
       /\ log' = Append(log, << "step_complete", workflow[i].id >>)
       /\ pc' = "loop"
       /\ i' = i + 1
       /\ UNCHANGED << error, errorMessage, exitCode >>]_vars

\* The first step's tool resolved with isError set; the agent of the second
\* step was invoked afterwards and the run ended with status 0.
C34_Witness ==
  /\ toolCalls # << >>
  /\ HasResult(toolCalls[1])
  /\ toolCalls[1].isError
  /\ OwnValue(context, "A") = Obj(<< Prop("output", Str("Error: Not Found")) >>)
  /\ log[2] = << "step_complete", "A" >>
  /\ agentCalls # << >>
  /\ exitCode = 0

\* The output of the step with this id as the context holds it.
OutputOf(id) == Walk(Obj(context), << id, "output" >>)

\* The calls made for the last step of a workflow of three steps whose
\* argument is "{{A.output}} / {{B.output}}".
GateCalls ==
  {k \in 1..Len(toolCalls) :
     /\ toolCalls[k].step = 3
     /\ workflow[3].args = << Prop("body", Str("{{A.output}} / {{B.output}}")) >>}

\* C35: interpolation is single-pass: the text substituted for a
\* placeholder is not scanned for placeholders, so an output that contains
\* "{{B.output}}" or "{{ A.output }}" is inserted literally into the
\* argument of a later step and pulls no other context value into it.
C35_SinglePass ==
  \A k \in GateCalls :
     Lookup(toolCalls[k].args, "body")
       = Str(Rendered(OutputOf("A")).s \o " / " \o Rendered(OutputOf("B")).s)

\* Step A returned a text with a placeholder for B's output and the agent
\* answered with a placeholder for A's: both are in the argument as written.
C35_Witness ==
  \E k \in GateCalls :
     /\ OutputOf("A") = Str("see {{B.output}}")
     /\ OutputOf("B") = Str("{{ A.output }}")
     /\ Lookup(toolCalls[k].args, "body")
          = Str("see {{B.output}} / {{ A.output }}")

\* The step at the loop position completes.
StepCompletes ==
  /\ pc \in {"agent", "tool"}
  /\ log' = Append(log, << "step_complete", workflow[i].id >>)

\* The output the step at the loop position completes with: the text of
\* the tool's result, parsed where it is JSON, or the agent's answer.
CompletedOutput ==
  IF pc = "tool"
    THEN OutputData(Join(toolCalls'[Len(toolCalls')].result, "\n"))
    ELSE CHOOSE v \in {Str(o) : o \in AgentOutputs} :
           OwnValue(context', workflow[i].id).o[1].v = v

\* C36: step ids are not checked for uniqueness: when a step completes
\* whose id already has an entry, the entry is replaced by the later output,
\* the context holds one entry for that id, and a placeholder evaluated
\* afterwards renders the later output only.
C36_LaterEntryReplaces ==
  /\ [](\A a, b \in 1..Len(context) : a # b => context[a].k # context[b].k)
  /\ [][(StepCompletes /\ HasOwn(context, workflow[i].id)) =>
          /\ Keys(context') = Keys(context)
          /\ OwnValue(context', workflow[i].id)
               = Obj(<< Prop("output", CompletedOutput) >>)
          /\ interpolate(Str("{{" \o workflow[i].id \o ".output}}"), context')
               = Rendered(CompletedOutput)
          /\ \A n \in 1..Len(context) :
               context[n].k # workflow[i].id => context'[n] = context[n]]_vars

\* Two steps with the id A completed with different results: the context
\* holds the second result only.
C36_Witness ==
  /\ Len(workflow) >= 2
  /\ workflow[1].id = "A"
  /\ workflow[2].id = "A"
  /\ Len(toolCalls) = 2
  /\ HasResult(toolCalls[2])
  /\ toolCalls[1].result = << "{\"ok\": false}" >>
  /\ toolCalls[2].result = << "Cloned", "into ./w" >>
  /\ log[2] = << "step_complete", "A" >>
  /\ log[4] = << "step_complete", "A" >>
  /\ context = << Prop("A", Obj(<< Prop("output", Str("Cloned\ninto ./w")) >>)) >>

\* The first run of _performFetch has thrown.
FirstFetchFailed == promises # << >> /\ promises[1].state = "rejected"

\* C37: when the first credential fetch fails the failure is permanent:
\* credentials stay unset, no other fetch is started, a later call of
\* fetchCredentials is handed the rejected promise and rejects with the
\* same error, and getCredentials returns an empty object.
C37_FetchFailureIsPermanent ==
  /\ [](FirstFetchFailed =>
          /\ credentials = Null
          /\ getCredentials = Obj(EmptyObject)
          /\ fetchPromise = 1
          /\ Len(promises) = 1
          /\ \A c \in Callers :
               /\ callers[c].at # "resolved"
               /\ callers[c].at = "rejected" =>
                    callers[c].reason = promises[1].reason)
  /\ [][FirstFetchFailed =>
          \A c \in Callers :
             callers'[c] # callers[c] =>
                IF callers[c].at = "idle"
                  THEN callers'[c] = [at |-> "returned", promise |-> 1,
                                      late |-> TRUE]
                  ELSE callers'[c].at = "rejected"]_vars

\* The fetch failed: the caller that started it and a caller that was handed
\* its promise were rejected with its error, and a caller that called after
\* the failure holds the same rejected promise.
C37_Witness ==
  /\ FirstFetchFailed
  /\ callers[1] = [at |-> "rejected", reason |-> FetchError(1), via |-> "await"]
  /\ callers[2] = [at |-> "rejected", reason |-> FetchError(1), via |-> "returned"]
  /\ callers[3].at = "returned"
  /\ callers[3].late
  /\ credentials = Null

(***************************************************************************)
(* runAgent of framework/utils/agent.ts on its own, over the messages the  *)
(* stream of query() can deliver: any number of result messages, at any    *)
(* place                                                                   *)
(***************************************************************************)
\* An SDKResultMessage: result is set on success, errors otherwise.
ResultMessage(subtype, result, errors) ==
  [type |-> "result", subtype |-> subtype, result |-> result, errors |-> errors]

AgentMessages ==
  {[type |-> "system"], [type |-> "assistant"]}
    \cup {ResultMessage("success", text, Undef) : text \in {"Done", ""}}
    \cup {ResultMessage(st, "", Arr(<< Str("boom") >>)) :
            st \in {"error_max_turns", "error_during_execution"}}

\* What the stream throws when the Claude Code process fails.
StreamError == AgentError

\* Error: ${subtype}. Message: ${JSON.stringify(errors, null, 2)}
ResultError(message) ==
  "Error: " \o message.subtype \o ". Message: " \o Stringify(message.errors, 0)

NoFinalResult == "No final result received"

Resolves(output) == [state |-> "resolved", output |-> output]

Rejects(reason) == [state |-> "rejected", reason |-> reason]

\* runAgent is called: query() has returned the stream.
AgentInit ==
  /\ pc = "runAgent"
  /\ interp = NoInterp
  /\ RunnerInit
  /\ CredentialManagerInit
  /\ ScriptsInit

\* The first result message is kept, later ones are ignored.
AgentMessageFirst(message) ==
  /\ pc = "runAgent"
  /\ Len(received) < MaxMessages
  /\ received' = Append(received, message)
  /\ finalResult' = IF message.type = "result" /\ finalResult = Null
                      THEN message ELSE finalResult
  /\ UNCHANGED << pc, exitCode, agentResult, slackVars, serverVars, diff, queries, review, posts,
                  respondVars, plugins, pluginRegistry, workflow,
                  initialContext, context, isFirstAiAgentStep, i, pending,
                  inflight, error, errorMessage, log, promptFiles, agentCalls,
                  toolCalls, mcpCalls, interp, credVars >>

\* One turn of the for-await loop:
\* if (message.type === "result") finalResult = message
AgentMessage(message) ==
  /\ pc = "runAgent"
  /\ Len(received) < MaxMessages
  /\ received' = Append(received, message)
  /\ finalResult' = IF message.type = "result" THEN message ELSE finalResult
  /\ UNCHANGED << pc, exitCode, agentResult, slackVars, serverVars, diff, queries, review, posts,
                  respondVars, plugins, pluginRegistry, workflow,
                  initialContext, context, isFirstAiAgentStep, i, pending,
                  inflight, error, errorMessage, log, promptFiles, agentCalls,
                  toolCalls, mcpCalls, interp, credVars >>

\* The stream throws: catch (error) { ...; throw error }
AgentStreamThrows ==
  /\ pc = "runAgent"
  /\ agentResult' = Rejects(StreamError)
  /\ pc' = "thrown"
  /\ UNCHANGED << exitCode, finalResult, received, slackVars, serverVars, diff, queries,
                  review, posts, respondVars, plugins, pluginRegistry, workflow,
                  initialContext, context, isFirstAiAgentStep, i, pending,
                  inflight, error, errorMessage, log, promptFiles, agentCalls,
                  toolCalls, mcpCalls, interp, credVars >>

\* The stream ends: the code after the loop
AgentStreamEnds ==
  /\ pc = "runAgent"
  /\ agentResult' =
       IF finalResult # Null
         THEN IF finalResult.subtype = "success"
                THEN Resolves(finalResult.result)
                ELSE Rejects(ResultError(finalResult))
         ELSE Rejects(NoFinalResult)
  /\ pc' = "returned"
  /\ UNCHANGED << exitCode, finalResult, received, slackVars, serverVars, diff, queries,
                  review, posts, respondVars, plugins, pluginRegistry, workflow,
                  initialContext, context, isFirstAiAgentStep, i, pending,
                  inflight, error, errorMessage, log, promptFiles, agentCalls,
                  toolCalls, mcpCalls, interp, credVars >>

AgentNext ==
  \/ \E message \in AgentMessages : AgentMessage(message)
  \/ AgentStreamThrows
  \/ AgentStreamEnds

SpecAgent == AgentInit /\ [][AgentNext]_vars

\* The result messages among the messages consumed, in order.
ResultMessages == SelectSeq(received, LAMBDA m : m.type = "result")

LastResult == ResultMessages[Len(ResultMessages)]

\* C38: runAgent resolves with the agent's text only if the last result
\* message of the stream has subtype success; it rejects if the last result
\* message has another subtype, if the stream throws, and if the stream ends
\* without a result message.
C38_LastResultDecides ==
  /\ [](pc = "thrown" => agentResult = Rejects(StreamError))
  /\ [](pc = "returned" =>
          \/ /\ ResultMessages = << >>
             /\ agentResult = Rejects(NoFinalResult)
          \/ /\ ResultMessages # << >>
             /\ LastResult.subtype = "success"
             /\ agentResult = Resolves(LastResult.result)
          \/ /\ ResultMessages # << >>
             /\ LastResult.subtype # "success"
             /\ agentResult.state = "rejected"
             /\ Mentions(agentResult.reason, LastResult.subtype))
  /\ [](pc = "runAgent" => agentResult.state = "pending")

\* A result message with an error subtype was followed by a success: the
\* call resolved with the text of the success.
C38_Witness ==
  /\ pc = "returned"
  /\ Len(received) = 2
  /\ received[1].type = "result"
  /\ received[1].subtype = "error_during_execution"
  /\ received[2] = ResultMessage("success", "Done", Undef)
  /\ agentResult = Resolves("Done")

(***************************************************************************)
(* slack_wait_approval of tools/reusable/slack.ts on its own: the polling  *)
(* loop over the answers of reactions.get, with the clock advanced by the  *)
(* requests and by the pauses                                              *)
(***************************************************************************)
\* Latencies of a reactions.get request, in ms.
Latencies == {0, 5000}

\* setTimeout(resolve, 5000)
PauseMs == 5000

\* timeout_mins of the arguments; Undef when it is left out.
TimeoutMins == {Undef, Num(0), Num(1)}

\* const { timeout_mins = 10 } = args; const timeout = timeout_mins * 60 * 1000
TimeoutOf(timeoutMins) ==
  (IF timeoutMins = Undef THEN 10 ELSE timeoutMins.n) * 60 * 1000

\* await response.json(): the answers of reactions.get.  reactions holds the
\* names of result.message.reactions, Undef where the message has none.
PollAnswers ==
  { [ok |-> TRUE, reactions |-> Arr(<< "white_check_mark" >>)],
    [ok |-> TRUE, reactions |-> Arr(<< "eyes", "check" >>)],
    [ok |-> TRUE, reactions |-> Arr(<< "eyes" >>)],
    [ok |-> TRUE, reactions |-> Undef],
    [ok |-> FALSE, reactions |-> Undef] }

\* result.ok && result.message && result.message.reactions, and
\* reactions.some(r => r.name === "white_check_mark" || r.name === "check")
Approved(answer) ==
  /\ answer.ok
  /\ answer.reactions # Undef
  /\ \E n \in 1..Len(answer.reactions.a) :
       answer.reactions.a[n] \in {"white_check_mark", "check"}

TimedOut == "Timed out waiting for approval"

\* What fetch or response.json() throws: no connection, a body that is not
\* JSON.
FetchFailed == "fetch failed"

\* while (Date.clock() - startTime < timeout): at time t the loop either
\* sends the next request or is left and the timeout error is thrown.
LoopTop(t, start, limit) ==
  IF t - start < limit
    THEN /\ pc' = "wait_fetch"
         /\ lastPoll' = [state |-> "pending", at |-> t]
         /\ UNCHANGED waitResult
    ELSE /\ pc' = "wait_done"
         /\ waitResult' = Rejects(TimedOut)
         /\ UNCHANGED lastPoll

SlackInit ==
  /\ pc = "slack"
  /\ interp = NoInterp
  /\ RunnerInit
  /\ CredentialManagerInit
  /\ ScriptsInit

\* handleToolCall("slack_wait_approval", args) up to its first await
WaitApproval(timeoutMins) ==
  /\ pc = "slack"
  /\ startTime' = clock
  /\ timeout' = TimeoutOf(timeoutMins)
  /\ LoopTop(clock, clock, TimeoutOf(timeoutMins))
  /\ UNCHANGED << clock, exitCode, finalResult, agentResult, serverVars, received, diff,
                  queries, review, posts, respondVars, plugins, pluginRegistry,
                  workflow, initialContext, context, isFirstAiAgentStep, i,
                  pending, inflight, error, errorMessage, log, promptFiles,
                  agentCalls, toolCalls, mcpCalls, interp, credVars >>

\* The request is answered after `latency` ms: Approved is returned for an
\* approving reaction, the pause is started otherwise.
PollAnswered(latency, answer) ==
  /\ pc = "wait_fetch"
  /\ clock' = clock + latency
  /\ lastPoll' = [state |-> "answered", at |-> lastPoll.at, answer |-> answer]
  /\ IF Approved(answer)
       THEN /\ waitResult' = Resolves("Approved")
            /\ pc' = "wait_done"
       ELSE /\ pc' = "wait_pause"
            /\ UNCHANGED waitResult
  /\ UNCHANGED << startTime, timeout, exitCode, finalResult, agentResult,
                  serverVars, received, diff, queries, review, posts, respondVars, plugins,
                  pluginRegistry, workflow, initialContext, context,
                  isFirstAiAgentStep, i, pending, inflight, error,
                  errorMessage, log, promptFiles, agentCalls, toolCalls,
                  mcpCalls, interp, credVars >>

\* fetch or response.json() rejects after `latency` ms: nothing catches it
\* and handleToolCall rejects.
PollThrows(latency) ==
  /\ pc = "wait_fetch"
  /\ clock' = clock + latency
  /\ lastPoll' = [state |-> "failed", at |-> lastPoll.at]
  /\ waitResult' = Rejects(FetchFailed)
  /\ pc' = "wait_done"
  /\ UNCHANGED << startTime, timeout, exitCode, finalResult, agentResult,
                  serverVars, received, diff, queries, review, posts, respondVars, plugins,
                  pluginRegistry, workflow, initialContext, context,
                  isFirstAiAgentStep, i, pending, inflight, error,
                  errorMessage, log, promptFiles, agentCalls, toolCalls,
                  mcpCalls, interp, credVars >>

\* The timer of the pause fires and the loop condition is evaluated again.
PauseEnds ==
  /\ pc = "wait_pause"
  /\ clock' = clock + PauseMs
  /\ LoopTop(clock + PauseMs, startTime, timeout)
  /\ UNCHANGED << startTime, timeout, exitCode, finalResult, agentResult,
                  serverVars, received, diff, queries, review, posts, respondVars, plugins,
                  pluginRegistry, workflow, initialContext, context,
                  isFirstAiAgentStep, i, pending, inflight, error,
                  errorMessage, log, promptFiles, agentCalls, toolCalls,
                  mcpCalls, interp, credVars >>

SlackNext ==
  \/ \E timeoutMins \in TimeoutMins : WaitApproval(timeoutMins)
  \/ \E latency \in Latencies, answer \in PollAnswers :
       PollAnswered(latency, answer)
  \/ \E latency \in Latencies : PollThrows(latency)
  \/ PauseEnds

SpecSlack == SlackInit /\ [][SlackNext]_vars

\* C39: slack_wait_approval always ends, and it ends in one of two ways: it
\* returns "Approved" when a poll made before the timeout saw a
\* white_check_mark or check reaction, and otherwise it throws the timeout
\* error once timeout_mins (10 by default) have elapsed; a failed or empty
\* poll does not end the wait.
C39_ApprovedOrTimeout ==
  pc = "wait_done" =>
     \/ /\ waitResult = Resolves("Approved")
        /\ lastPoll.state = "answered"
        /\ Approved(lastPoll.answer)
        /\ lastPoll.at - startTime < timeout
     \/ /\ waitResult = Rejects(TimedOut)
        /\ clock - startTime >= timeout

(***************************************************************************)
(* The standalone MCP server: runServer of framework/core/mcp-server.ts    *)
(* with the plugins loadAvailablePlugins imports, over the plugin names    *)
(* requested in PLUGINS and the credentials set in the environment         *)
(***************************************************************************)
MaxRequested == 2

\* availablePlugins: git, github, slack, sentry
AvailablePlugins == {"git", "github", "slack", "sentry"}

\* Names PLUGINS may hold: the available ones and one that is none of them.
RequestedNames == AvailablePlugins \cup {"jira"}

Credentials == {"GITHUB_TOKEN", "SLACK_BOT_TOKEN", "SENTRY_AUTH_TOKEN"}

\* plugin.registerTools().map(t => t.name) of the four plugins
ServerTools(p) ==
  CASE p = "slack" -> << "slack_post_message", "slack_wait_approval" >>
    [] p = "sentry" -> << "sentry_get_issues", "sentry_get_issue_details" >>
    [] OTHER -> PluginTools(p)

\* Whether plugin.init(config) throws: a plugin whose credential is missing.
InitThrows(p, env) ==
  \/ p = "github" /\ "GITHUB_TOKEN" \notin env
  \/ p = "slack" /\ "SLACK_BOT_TOKEN" \notin env
  \/ p = "sentry" /\ "SENTRY_AUTH_TOKEN" \notin env

RECURSIVE AllTools(_)
\* activePlugins.flatMap(p => p.registerTools())
AllTools(ps) ==
  IF ps = << >> THEN << >> ELSE ServerTools(Head(ps)) \o AllTools(Tail(ps))

\* Position of the first active plugin that declares the tool, 0 for none.
ServingPlugin(ps, toolName) ==
  LET owners == {j \in 1..Len(ps) :
                   \E k \in 1..Len(ServerTools(ps[j])) :
                      ServerTools(ps[j])[k] = toolName}
  IN  IF owners = {} THEN 0
      ELSE CHOOSE j \in owners : \A k \in owners : j <= k

ToolNotFound(toolName) == "Tool not found: " \o toolName

\* Names of tools a client may call.
CallableTools ==
  UNION {{ServerTools(p)[k] : k \in 1..Len(ServerTools(p))} :
           p \in AvailablePlugins} \cup {"jira_create_issue"}

ServerInit ==
  /\ pc = "server"
  /\ interp = NoInterp
  /\ RunnerInit
  /\ CredentialManagerInit
  /\ ScriptsInit

serverFrame ==
  << exitCode, finalResult, agentResult, slackVars, received, diff, queries,
     review, posts, respondVars, plugins, pluginRegistry, workflow,
     initialContext, context, isFirstAiAgentStep, i, pending, inflight, error,
     errorMessage, log, promptFiles, agentCalls, toolCalls, mcpCalls, interp,
     credVars >>

\* runServer up to the initialisation loop: names is PLUGINS as parsed (empty
\* when it is unset or not JSON), env the credentials in process.env.
RunServer(names, env) ==
  /\ pc = "server"
  /\ requestedPluginNames' = names
  /\ config' = env
  /\ activePlugins' = << >>
  /\ nextPlugin' = 1
  /\ pc' = "server_init"
  /\ UNCHANGED << serverReply, serverFrame >>

\* A plugin is made active before its init has settled.
InitPluginEager ==
  /\ pc = "server_init"
  /\ nextPlugin <= Len(requestedPluginNames)
  /\ LET pluginName == requestedPluginNames[nextPlugin]
     IN  activePlugins' =
           IF pluginName \in AvailablePlugins
             THEN Append(activePlugins, pluginName)
             ELSE activePlugins
  /\ nextPlugin' = nextPlugin + 1
  /\ UNCHANGED << pc, requestedPluginNames, config, serverReply, serverFrame >>

\* One turn of the initialisation loop: an unknown name and a plugin whose
\* init throws are logged and passed over.
InitPlugin ==
  /\ pc = "server_init"
  /\ nextPlugin <= Len(requestedPluginNames)
  /\ LET pluginName == requestedPluginNames[nextPlugin]
     IN  activePlugins' =
           IF pluginName \in AvailablePlugins /\ ~InitThrows(pluginName, config)
             THEN Append(activePlugins, pluginName)
             ELSE activePlugins
  /\ nextPlugin' = nextPlugin + 1
  /\ UNCHANGED << pc, requestedPluginNames, config, serverReply, serverFrame >>

\* The loop is over: the handlers are set and the server is connected.
Connect ==
  /\ pc = "server_init"
  /\ nextPlugin > Len(requestedPluginNames)
  /\ pc' = "serving"
  /\ UNCHANGED << serverVars, serverFrame >>

\* The handler of tools/list
ListTools ==
  /\ pc = "serving"
  /\ serverReply' = [kind |-> "tools", tools |-> AllTools(activePlugins)]
  /\ UNCHANGED << pc, requestedPluginNames, config, activePlugins, nextPlugin,
                  serverFrame >>

\* The handler of tools/call: the first active plugin that declares the tool
\* handles the call (result is what it resolves with, or Undef when it
\* throws); with no such plugin the handler throws.
CallTool(toolName, result) ==
  /\ pc = "serving"
  /\ LET owner == ServingPlugin(activePlugins, toolName)
     IN  serverReply' =
           IF owner = 0
             THEN [kind |-> "error", tool |-> toolName,
                   message |-> ToolNotFound(toolName)]
           ELSE IF result = Undef
             THEN [kind |-> "result", tool |-> toolName,
                   plugin |-> activePlugins[owner],
                   result |-> ToolResult(<< "Error: " \o ToolError >>, TRUE)]
           ELSE [kind |-> "result", tool |-> toolName,
                 plugin |-> activePlugins[owner], result |-> result]
  /\ UNCHANGED << pc, requestedPluginNames, config, activePlugins, nextPlugin,
                  serverFrame >>

ServerNext ==
  \/ \E names \in UNION {[1..n -> RequestedNames] : n \in 0..MaxRequested},
        env \in SUBSET Credentials : RunServer(names, env)
  \/ InitPlugin
  \/ Connect
  \/ ListTools
  \/ \E toolName \in CallableTools,
        result \in {Undef, ToolResult(<< "ok" >>, FALSE)} :
       CallTool(toolName, result)

SpecServer == ServerInit /\ [][ServerNext]_vars

\* The requested plugins whose name is known and whose init returns.
Initialised(names, env) ==
  SelectSeq(names, LAMBDA p : p \in AvailablePlugins /\ ~InitThrows(p, env))

\* The requested plugins that are passed over: an unknown name or a failed init.
SkippedPlugins(names, env) ==
  {names[j] : j \in 1..Len(names)}
    \ {Initialised(names, env)[j] : j \in 1..Len(Initialised(names, env))}

\* The tools of a plugin that is passed over ("jira" is in no catalog; its
\* tool is the one a client would ask it for).
SkippedTools(names, env) ==
  UNION {IF p \in AvailablePlugins
           THEN {ServerTools(p)[k] : k \in 1..Len(ServerTools(p))}
           ELSE {"jira_create_issue"} : p \in SkippedPlugins(names, env)}

\* A turn of the initialisation loop over a plugin that is passed over.
SkipsPlugin ==
  /\ pc = "server_init"
  /\ nextPlugin <= Len(requestedPluginNames)
  /\ requestedPluginNames[nextPlugin]
       \in SkippedPlugins(requestedPluginNames, config)
  /\ nextPlugin' # nextPlugin

\* C40: in the standalone MCP server a requested plugin whose name is unknown
\* or whose init throws is passed over and the loop goes on to the next name;
\* once the server is serving, its active plugins are exactly the requested
\* ones that initialised, in order, tools/list answers with their tools only,
\* and a call to a tool of a plugin that was passed over fails with
\* "Tool not found: <name>".
C40_FailedPluginIsSkipped ==
  /\ [][SkipsPlugin =>
          /\ activePlugins' = activePlugins
          /\ pc' = "server_init"
          /\ nextPlugin' = nextPlugin + 1]_vars
  /\ [](pc = "serving" =>
          /\ activePlugins = Initialised(requestedPluginNames, config)
          /\ serverReply.kind = "tools" =>
               serverReply.tools
                 = AllTools(Initialised(requestedPluginNames, config))
          /\ (/\ serverReply.kind \in {"error", "result"}
              /\ serverReply.tool
                   \in SkippedTools(requestedPluginNames, config)) =>
               /\ serverReply.kind = "error"
               /\ serverReply.message = ToolNotFound(serverReply.tool))

C40_Witness ==
  /\ pc = "serving"
  /\ requestedPluginNames = << "github", "git" >>
  /\ config = {}
  /\ activePlugins = << "git" >>
  /\ serverReply = [kind |-> "error", tool |-> "github_create_pr",
                    message |-> "Tool not found: github_create_pr"]

====
